---- MODULE Spec2Model ----
(***************************************************************************)
(* Wheel of Ethereal: the spin resolver of the Wheel component and the     *)
(* match state machine of the Home page (normal scoring and battle royale  *)
(* elimination), with the two deferred callbacks (the spin-result timeout  *)
(* and the auto-spin timer) and the render that React commits between      *)
(* them.                                                                   *)
(*                                                                         *)
(* Angles are counted in quarter degrees, so that for every segment count  *)
(* used here the segment angle and its 0.15 / 0.25 / 0.75 / 0.85 marks are *)
(* whole numbers.  The draws of Math.random() are the whole ticks of the   *)
(* interval the code draws from.                                           *)
(***************************************************************************)
EXTENDS Integers, Sequences, FiniteSets, TLC

\* ------------------------------------------------------------------ bounds
MaxPlayers == 2         \* roster lengths the setup screen builds
MaxIds == 2             \* createPlayer calls explored in one session
MaxRound == 2           \* battle royale rounds explored
MaxEliminations == 2    \* Date.now() readings (eliminating outcomes) explored
MaxDebt == 50           \* normal-mode scores explored go down to -MaxDebt
MaxTarget == 100        \* highest target a normal-mode match is started with
MaxRoster == 3          \* roster lengths the turn sequencer and the rankings are tried on
MaxKeys == 2            \* elimination timestamps those rosters draw from
MaxOver == 2            \* players past the roster limit the setup screen is followed to
TicksPerDegree == 4     \* resolution of the angles: a tick is a quarter of a degree

\* ------------------------------------------------------- program constants
FULL_TURN == 360 * TicksPerDegree  \* 360 degrees, in ticks
SPIN_MS == 4100         \* delay of the spin-result timeout
DEFAULT_TARGET == 500   \* useState(500) / setTargetPoints(500)
MIN_TARGET == 100       \* lowest target handleTargetChange lets through
MAX_BATTLE_PLAYERS == 64 \* the roster cap of addPlayer in battle royale

\* the names typed into the setup screen, by the number of players created before
TypedNames == << "Ann", "Bob", "Cat", "Dan" >>
NamesFor(counter) == {TypedNames[((counter) % Len(TypedNames)) + 1]}
TargetChoices == {MIN_TARGET}
Modes == {"normal", "battle-royale"}

NORMAL_SEGMENTS ==
  << "Lucky! +100", "Unlucky -50", "Spin Again", "Double Pts",
     "Lose Turn", "Bonus Round", "+50 Points", "-25 Points" >>

BATTLE_SEGMENTS ==
  << "Victory", "Defeat", "Immunity", "Double Elim",
     "Sudden Death", "Extra Life", "Victory", "Defeat" >>

SegmentsOf(m) == IF m = "normal" THEN NORMAL_SEGMENTS ELSE BATTLE_SEGMENTS

\* the segment lists a Wheel is rendered with: the two of Home, and lists of other
\* lengths with no favourable label, with one inside a longer label, with one last
WheelSegmentLists ==
  { NORMAL_SEGMENTS, BATTLE_SEGMENTS,
    << "Defeat", "Flawless Victory" >>,
    << "Defeat", "Lose Turn", "Spin Again" >>,
    << "Defeat", "Extra Life", "Defeat", "Sudden Death", "Super Bonus Round" >>,
    << "Skip", "Defeat", "Immunity", "Skip", "Defeat", "Lose Turn" >> }

favorableLabels ==
  << "Victory", "Lucky! +100", "Double Pts", "Bonus Round",
     "+50 Points", "Immunity", "Extra Life" >>

\* ------------------------------------------------------------- the players
NoElimination == [cause |-> "none", eliminatedBy |-> "", round |-> 0, timestamp |-> 0]

\* a variant that numbers every player 1
createPlayerSameId(name, counter) ==
  [id |-> 1, name |-> name, status |-> "active", score |-> 0,
   eliminationData |-> NoElimination, revivedCount |-> 0]

createPlayer(name, counter) ==
  [id |-> counter + 1, name |-> name, status |-> "active", score |-> 0,
   eliminationData |-> NoElimination, revivedCount |-> 0]

\* prev.map(p => ({...p, status: "active", score: 0}))
ResetRuntime(ps) ==
  [i \in 1..Len(ps) |-> [ps[i] EXCEPT !.status = "active", !.score = 0]]

\* the Play Again map, which also clears eliminationData and revivedCount
ResetAll(ps) ==
  [i \in 1..Len(ps) |->
     [ps[i] EXCEPT !.status = "active", !.score = 0,
                   !.eliminationData = NoElimination, !.revivedCount = 0]]

\* zero-based indices of the players with a status, in roster order
IndicesWith(ps, st) == {i \in 0..(Len(ps) - 1) : ps[i + 1].status = st}

ActiveCount(ps) == Cardinality(IndicesWith(ps, "active"))

\* Array.prototype.findIndex(p => p.id === id), zero-based, -1 when absent
FindIndexById(ps, id) ==
  IF \E i \in 1..Len(ps) : ps[i].id = id
    THEN (CHOOSE i \in 1..Len(ps) :
            /\ ps[i].id = id
            /\ \A j \in 1..(i - 1) : ps[j].id # id) - 1
    ELSE -1

\* players.filter(p => p.status === st), as a sequence
RECURSIVE FilterStatus(_, _)
FilterStatus(ps, st) ==
  IF ps = << >> THEN << >>
  ELSE IF Head(ps).status = st
         THEN << Head(ps) >> \o FilterStatus(Tail(ps), st)
         ELSE FilterStatus(Tail(ps), st)

\* the while loop of getNextActivePlayerIndex: idx and attempts when it exits
RECURSIVE NextActiveLoop(_, _, _)
NextActiveLoop(idx, attempts, playerList) ==
  IF playerList[idx + 1].status # "active" /\ attempts < Len(playerList)
    THEN NextActiveLoop((idx + 1) % Len(playerList), attempts + 1, playerList)
    ELSE [idx |-> idx, attempts |-> attempts]

\* a variant that hands the turn to the neighbour whatever its status
getNextActivePlayerIndexNoSkip(fromIndex, playerList) ==
  (fromIndex + 1) % Len(playerList)

\* a variant that starts the scan at fromIndex itself
getNextActivePlayerIndexFromSelf(fromIndex, playerList) ==
  NextActiveLoop(fromIndex % Len(playerList), 0, playerList).idx

getNextActivePlayerIndex(fromIndex, playerList) ==
  NextActiveLoop((fromIndex + 1) % Len(playerList), 0, playerList).idx

\* ---------------------------------------------------------- the spin resolver
segmentAngle(n) == FULL_TURN \div n

\* finalAngle = rotation % 360; pointerAngle = (360 - finalAngle + 360) % 360
PointerAngle(rotation) == (FULL_TURN - (rotation % FULL_TURN) + FULL_TURN) % FULL_TURN

\* String.prototype.includes
Includes(s, sub) ==
  \E i \in 1..(Len(s) - Len(sub) + 1) : SubSeq(s, i, i + Len(sub) - 1) = sub

UpperLetters == "ABCDEFGHIJKLMNOPQRSTUVWXYZ"
LowerLetters == "abcdefghijklmnopqrstuvwxyz"

\* the lower-case letter of each upper-case letter
LowerOf ==
  [c \in {SubSeq(UpperLetters, i, i) : i \in 1..26} |->
     LET i == CHOOSE j \in 1..26 : SubSeq(UpperLetters, j, j) = c
     IN  SubSeq(LowerLetters, i, i)]

LowerChar(c) == IF c \in DOMAIN LowerOf THEN LowerOf[c] ELSE c

\* String.prototype.toLowerCase
RECURSIVE ToLowerCase(_)
ToLowerCase(s) ==
  IF Len(s) = 0 THEN s
  ELSE LowerChar(SubSeq(s, 1, 1)) \o ToLowerCase(SubSeq(s, 2, Len(s)))

NullName == "<null>"    \* currentPlayerName is null or not passed

\* a variant that compares the names as they are written
IsRiggedSpinCaseSensitive(props) ==
  /\ props.riggedEnabled
  /\ props.currentPlayerName # NullName
  /\ props.currentPlayerName = props.riggedPlayerName

\* riggedEnabled && currentPlayerName?.toLowerCase() === riggedPlayerName.toLowerCase()
IsRiggedSpin(props) ==
  /\ props.riggedEnabled
  /\ props.currentPlayerName # NullName
  /\ ToLowerCase(props.currentPlayerName) = ToLowerCase(props.riggedPlayerName)

\* segments.map(...).filter(i => i !== -1): the zero-based favourable indices, ascending
RECURSIVE FavorableFrom(_, _)
FavorableFrom(segs, i) ==
  IF i >= Len(segs) THEN << >>
  ELSE IF \E k \in 1..Len(favorableLabels) : Includes(segs[i + 1], favorableLabels[k])
         THEN << i >> \o FavorableFrom(segs, i + 1)
         ELSE FavorableFrom(segs, i + 1)

\* the favourable indices of each segment list a Wheel is rendered with, computed once
FavorableOf == [segs \in WheelSegmentLists |-> FavorableFrom(segs, 0)]

FavorableIndices(segs) == FavorableOf[segs]

\* a variant that takes the draw itself for the segment index
RiggedIndexOfDraw(segs, pick) == pick

\* favorableIndices[Math.floor(Math.random() * favorableIndices.length)], or 0;
\* pick is the floored draw
RiggedIndex(segs, pick) ==
  LET fav == FavorableIndices(segs)
  IN  IF Len(fav) > 0 THEN fav[pick + 1] ELSE 0

\* the rigged branch of spin; turns = fullRotations * 360
RiggedSpin(cur, turns, pick, segs) ==
  LET n == Len(segs)
      segmentIndex == RiggedIndex(segs, pick)
      targetSegmentCenter == segmentIndex * segmentAngle(n) + segmentAngle(n) \div 2
      targetAngle == (FULL_TURN - targetSegmentCenter + FULL_TURN) % FULL_TURN
  IN  [segmentIndex |-> segmentIndex,
       newRotation |-> cur + turns + targetAngle - (cur % FULL_TURN),
       candidateRotation |-> cur + turns + targetAngle - (cur % FULL_TURN),
       branch |-> "rigged"]

\* a variant whose low branch adds the adjustment
DeadZoneAdjustAdds(candidateRotation, pos, sa) ==
  IF pos * 100 < 15 * sa
    THEN candidateRotation + ((sa \div 4) - pos)
    ELSE IF pos * 100 > 85 * sa
      THEN candidateRotation + (pos - (3 * sa) \div 4)
      ELSE candidateRotation

\* a variant without the branch for the end of a segment
DeadZoneAdjustLowOnly(candidateRotation, pos, sa) ==
  IF pos * 100 < 15 * sa
    THEN candidateRotation - ((sa \div 4) - pos)
    ELSE candidateRotation

\* the dead-zone correction; pos is pointerAngle % segmentAngle, so that
\* positionInSegment = pos / sa, deadZone = 0.15
DeadZoneAdjust(candidateRotation, pos, sa) ==
  IF pos * 100 < 15 * sa
    THEN candidateRotation - ((sa \div 4) - pos)
    ELSE IF pos * 100 > 85 * sa
      THEN candidateRotation + (pos - (3 * sa) \div 4)
      ELSE candidateRotation

\* the branch of the dead-zone correction that runs
DeadZoneBranch(pos, sa) ==
  IF pos * 100 < 15 * sa THEN "low"
  ELSE IF pos * 100 > 85 * sa THEN "high" ELSE "centre"

\* a variant that neither wraps the pointer angle nor the index
UnriggedSpinNoWrap(cur, turns, randomAngle, n) ==
  LET candidateRotation == cur + turns + randomAngle
      pointerAngle == FULL_TURN - (candidateRotation % FULL_TURN)
      sa == segmentAngle(n)
  IN  [segmentIndex |-> pointerAngle \div sa,
       newRotation |-> DeadZoneAdjust(candidateRotation, pointerAngle % sa, sa),
       candidateRotation |-> candidateRotation,
       branch |-> DeadZoneBranch(pointerAngle % sa, sa)]

\* the unrigged branch of spin; turns = fullRotations * 360, randomAngle = Math.random() * 360
UnriggedSpin(cur, turns, randomAngle, n) ==
  LET totalRotation == turns + randomAngle
      candidateRotation == cur + totalRotation
      pointerAngle == PointerAngle(candidateRotation)
      sa == segmentAngle(n)
  IN  [segmentIndex |-> (pointerAngle \div sa) % n,
       newRotation |-> DeadZoneAdjust(candidateRotation, pointerAngle % sa, sa),
       candidateRotation |-> candidateRotation,
       branch |-> DeadZoneBranch(pointerAngle % sa, sa)]

\* the outcome spin computes for the props of the render it was created in
ResolveSpin(props, cur, turns, randomAngle, pick) ==
  IF IsRiggedSpin(props)
    THEN RiggedSpin(cur, turns, pick, props.segments)
    ELSE UnriggedSpin(cur, turns, randomAngle, Len(props.segments))

\* ------------------------------------------------------ the outcome handlers
\* a variant that does not record the round
EliminateNoRound(p, cause, by, rnd, ts) ==
  [p EXCEPT !.status = "eliminated",
            !.eliminationData =
               [cause |-> cause, eliminatedBy |-> by, round |-> 0, timestamp |-> ts]]

Eliminate(p, cause, by, rnd, ts) ==
  [p EXCEPT !.status = "eliminated",
            !.eliminationData =
               [cause |-> cause, eliminatedBy |-> by, round |-> rnd, timestamp |-> ts]]

\* updatedPlayers.filter((p, i) => p.status === "active" && i !== currentPlayerIndex)
RECURSIVE OtherActiveFrom(_, _, _)
OtherActiveFrom(ps, i, cpi) ==
  IF i >= Len(ps) THEN << >>
  ELSE IF ps[i + 1].status = "active" /\ i # cpi
         THEN << ps[i + 1] >> \o OtherActiveFrom(ps, i + 1, cpi)
         ELSE OtherActiveFrom(ps, i + 1, cpi)

\* a variant that records the victim at the spinner's own timestamp
DoubleElimSameInstant(ps, cpi, rnd, now, pick) ==
  LET currentPlayer == ps[cpi + 1]
      spinnerOut == [ps EXCEPT ![cpi + 1] =
                       Eliminate(currentPlayer, "Double Elimination", "", rnd, now)]
      otherActive == OtherActiveFrom(spinnerOut, 0, cpi)
  IN  IF Len(otherActive) > 0
        THEN LET victim == otherActive[pick + 1]
                 victimIdx == FindIndexById(spinnerOut, victim.id)
             IN  [spinnerOut EXCEPT ![victimIdx + 1] =
                    Eliminate(victim, "Double Elimination", currentPlayer.name, rnd, now)]
        ELSE spinnerOut

\* a variant that does not record who took the victim down
DoubleElimNoAttribution(ps, cpi, rnd, now, pick) ==
  LET currentPlayer == ps[cpi + 1]
      spinnerOut == [ps EXCEPT ![cpi + 1] =
                       Eliminate(currentPlayer, "Double Elimination", "", rnd, now)]
      otherActive == OtherActiveFrom(spinnerOut, 0, cpi)
  IN  IF Len(otherActive) > 0
        THEN LET victim == otherActive[pick + 1]
                 victimIdx == FindIndexById(spinnerOut, victim.id)
             IN  [spinnerOut EXCEPT ![victimIdx + 1] =
                    Eliminate(victim, "Double Elimination", "", rnd, now + 1)]
        ELSE spinnerOut

DoubleElim(ps, cpi, rnd, now, pick) ==
  LET currentPlayer == ps[cpi + 1]
      spinnerOut == [ps EXCEPT ![cpi + 1] =
                       Eliminate(currentPlayer, "Double Elimination", "", rnd, now)]
      otherActive == OtherActiveFrom(spinnerOut, 0, cpi)
  IN  IF Len(otherActive) > 0
        THEN LET victim == otherActive[pick + 1]
                 victimIdx == FindIndexById(spinnerOut, victim.id)
             IN  [spinnerOut EXCEPT ![victimIdx + 1] =
                    Eliminate(victim, "Double Elimination", currentPlayer.name, rnd, now + 1)]
        ELSE spinnerOut

\* a variant that revives without counting the revival
ExtraLifeNoCount(ps, pick) ==
  LET eliminated == FilterStatus(ps, "eliminated")
  IN  IF Len(eliminated) > 0
        THEN LET revived == eliminated[pick + 1]
                 revivedIdx == FindIndexById(ps, revived.id)
             IN  [ps EXCEPT ![revivedIdx + 1] = [revived EXCEPT !.status = "active"]]
        ELSE ps

ExtraLife(ps, pick) ==
  LET eliminated == FilterStatus(ps, "eliminated")
  IN  IF Len(eliminated) > 0
        THEN LET revived == eliminated[pick + 1]
                 revivedIdx == FindIndexById(ps, revived.id)
             IN  [ps EXCEPT ![revivedIdx + 1] =
                    [revived EXCEPT !.status = "active",
                                    !.revivedCount = revived.revivedCount + 1]]
        ELSE ps

\* a variant in which Victory also credits the current player
BattleSwitchVictoryScores(ps, cpi, rnd, label, now, coin, pick) ==
  LET currentPlayer == ps[cpi + 1]
  IN  CASE label = "Defeat" ->
             [ps EXCEPT ![cpi + 1] = Eliminate(currentPlayer, "Defeat", "", rnd, now)]
        [] label = "Double Elim" -> DoubleElim(ps, cpi, rnd, now, pick)
        [] label = "Sudden Death" ->
             IF coin
               THEN [ps EXCEPT ![cpi + 1] =
                       Eliminate(currentPlayer, "Sudden Death", "", rnd, now)]
               ELSE ps
        [] label = "Extra Life" -> ExtraLife(ps, pick)
        [] label = "Victory" -> [ps EXCEPT ![cpi + 1].score = 100]
        [] OTHER -> ps

\* the switch of handleBattleResult: updatedPlayers after the outcome.
\* now = Date.now(), coin = (Math.random() < 0.5), pick = the floored random index
BattleSwitch(ps, cpi, rnd, label, now, coin, pick) ==
  LET currentPlayer == ps[cpi + 1]
  IN  CASE label = "Defeat" ->
             [ps EXCEPT ![cpi + 1] = Eliminate(currentPlayer, "Defeat", "", rnd, now)]
        [] label = "Double Elim" -> DoubleElim(ps, cpi, rnd, now, pick)
        [] label = "Sudden Death" ->
             IF coin
               THEN [ps EXCEPT ![cpi + 1] =
                       Eliminate(currentPlayer, "Sudden Death", "", rnd, now)]
               ELSE ps
        [] label = "Extra Life" -> ExtraLife(ps, pick)
        [] OTHER -> ps

\* the number of candidates the outcome's random index is drawn over
PickRange(ps, cpi, label) ==
  CASE label = "Double Elim" -> Cardinality(IndicesWith(ps, "active") \ {cpi})
    [] label = "Extra Life" -> Cardinality(IndicesWith(ps, "eliminated"))
    [] OTHER -> 0

\* the outcome reads Date.now()
ReadsClock(label, coin) ==
  \/ label \in {"Defeat", "Double Elim"}
  \/ label = "Sudden Death" /\ coin

\* a variant that puts a player before the players of the same timestamp
InsertByTimestampDescTiesFirst(sorted, p) ==
  LET later == {i \in 1..Len(sorted) :
                  sorted[i].eliminationData.timestamp <= p.eliminationData.timestamp}
      at == IF later = {} THEN Len(sorted) + 1
            ELSE CHOOSE i \in later : \A j \in later : i <= j
  IN  SubSeq(sorted, 1, at - 1) \o << p >> \o SubSeq(sorted, at, Len(sorted))

\* a variant that sorts by ascending timestamp
InsertByTimestampAsc(sorted, p) ==
  LET earlier == {i \in 1..Len(sorted) :
                    sorted[i].eliminationData.timestamp > p.eliminationData.timestamp}
      at == IF earlier = {} THEN Len(sorted) + 1
            ELSE CHOOSE i \in earlier : \A j \in earlier : i <= j
  IN  SubSeq(sorted, 1, at - 1) \o << p >> \o SubSeq(sorted, at, Len(sorted))

\* one step of [...eliminated].sort((a, b) => b.timestamp - a.timestamp), which is stable
InsertByTimestampDesc(sorted, p) ==
  LET later == {i \in 1..Len(sorted) :
                  sorted[i].eliminationData.timestamp < p.eliminationData.timestamp}
      at == IF later = {} THEN Len(sorted) + 1
            ELSE CHOOSE i \in later : \A j \in later : i <= j
  IN  SubSeq(sorted, 1, at - 1) \o << p >> \o SubSeq(sorted, at, Len(sorted))

RECURSIVE SortByTimestampDesc(_)
SortByTimestampDesc(ps) ==
  IF ps = << >> THEN << >>
  ELSE InsertByTimestampDesc(SortByTimestampDesc(SubSeq(ps, 1, Len(ps) - 1)), ps[Len(ps)])

calculateRankings(playerList, totalRounds) ==
  LET winners == FilterStatus(playerList, "winner")
      sortedEliminated == SortByTimestampDesc(FilterStatus(playerList, "eliminated"))
      first == IF Len(winners) > 0
                 THEN << [playerId |-> winners[1].id, playerName |-> winners[1].name,
                          rank |-> 1, eliminationCause |-> "none", eliminatedBy |-> "",
                          finalRound |-> totalRounds, survivedRounds |-> totalRounds,
                          revivedCount |-> winners[1].revivedCount] >>
                 ELSE << >>
      rest == [index \in 1..Len(sortedEliminated) |->
                 LET player == sortedEliminated[index]
                 IN  [playerId |-> player.id, playerName |-> player.name,
                      rank |-> (index - 1) + 2,
                      eliminationCause |-> player.eliminationData.cause,
                      eliminatedBy |-> player.eliminationData.eliminatedBy,
                      finalRound |-> player.eliminationData.round,
                      survivedRounds |-> player.eliminationData.round,
                      revivedCount |-> player.revivedCount]]
  IN  first \o rest

\* a variant that ends the match only once nobody is active
BattleEndsWhenNoneLeft(updatedPlayers, m) ==
  ActiveCount(updatedPlayers) < 1 /\ m = "battle-royale"

\* the "Check for winner" block: remaining.length <= 1 && mode === "battle-royale"
BattleEnds(updatedPlayers, m) == ActiveCount(updatedPlayers) <= 1 /\ m = "battle-royale"

\* updatedPlayers[winnerIdx] = {...remaining[0], status: "winner"} when one player remains
MarkSurvivor(updatedPlayers) ==
  LET remaining == FilterStatus(updatedPlayers, "active")
  IN  IF Len(remaining) = 1
        THEN LET winnerIdx == FindIndexById(updatedPlayers, remaining[1].id)
             IN  [updatedPlayers EXCEPT ![winnerIdx + 1] =
                    [remaining[1] EXCEPT !.status = "winner"]]
        ELSE updatedPlayers

\* a variant that counts a round only when the turn returns to the first seat
RoundCompletedAtFirstSeat(nextIdx, cpi) == nextIdx = 0

\* if (nextIdx <= currentPlayerIndex) setRound((r) => r + 1)
RoundCompleted(nextIdx, cpi) == nextIdx <= cpi

\* handleBattleResult over the state h its closure captured; the guard
\* !currentPlayer || currentPlayer.status !== "active" gives applied = FALSE
handleBattleResult(h, label, now, coin, pick) ==
  LET cpi == h.currentPlayerIndex
  IN  IF cpi >= Len(h.players) \/ h.players[cpi + 1].status # "active"
        THEN [applied |-> FALSE]
        ELSE
          LET updatedPlayers == BattleSwitch(h.players, cpi, h.round, label, now, coin, pick)
              gameEnded == BattleEnds(updatedPlayers, h.mode)
              final == MarkSurvivor(updatedPlayers)
              nextIdx == getNextActivePlayerIndex(cpi, updatedPlayers)
          IN  IF gameEnded
                THEN [applied |-> TRUE, gameEnded |-> TRUE, players |-> final,
                      finalRankings |-> calculateRankings(final, h.round),
                      currentPlayerIndex |-> cpi, advanced |-> FALSE, roundUp |-> FALSE,
                      autoSpin |-> FALSE]
                ELSE [applied |-> TRUE, gameEnded |-> FALSE, players |-> updatedPlayers,
                      finalRankings |-> << >>,
                      currentPlayerIndex |-> nextIdx, advanced |-> TRUE,
                      roundUp |-> RoundCompleted(nextIdx, cpi),
                      autoSpin |-> h.autoSpinEnabled]

\* a variant in which Double Pts adds nothing to a score below zero
ScoreChangeDoubleFloored(label, score) ==
  CASE label = "Lucky! +100" -> 100
    [] label = "Unlucky -50" -> -50
    [] label = "Double Pts" -> IF score > 0 THEN score ELSE 0
    [] label = "Bonus Round" -> 75
    [] label = "+50 Points" -> 50
    [] label = "-25 Points" -> -25
    [] OTHER -> 0

\* the switch of handleNormalResult: scoreChange
ScoreChange(label, score) ==
  CASE label = "Lucky! +100" -> 100
    [] label = "Unlucky -50" -> -50
    [] label = "Double Pts" -> score
    [] label = "Bonus Round" -> 75
    [] label = "+50 Points" -> 50
    [] label = "-25 Points" -> -25
    [] OTHER -> 0

SetScoreById(ps, id, newScore) ==
  [i \in 1..Len(ps) |-> IF ps[i].id = id THEN [ps[i] EXCEPT !.score = newScore] ELSE ps[i]]

\* a variant that marks the first player of the roster
SetWinnerFirst(ps, id) ==
  [i \in 1..Len(ps) |-> IF i = 1 THEN [ps[i] EXCEPT !.status = "winner"] ELSE ps[i]]

SetWinnerById(ps, id) ==
  [i \in 1..Len(ps) |-> IF ps[i].id = id THEN [ps[i] EXCEPT !.status = "winner"] ELSE ps[i]]

\* a variant that needs the score to pass the target
ReachedTargetStrict(newScore, target) == newScore > target

\* newScore >= targetPoints
ReachedTarget(newScore, target) == newScore >= target

\* a variant in which Lose Turn keeps the turn as well
AdvancesTurnUnlessLoseTurn(label) == label \notin {"Spin Again", "Lose Turn"}

\* if (segment.label !== "Spin Again"): the outcome passes the turn on
AdvancesTurn(label) == label # "Spin Again"

\* handleNormalResult over the state h its closure captured; the guard
\* !currentPlayer gives applied = FALSE
handleNormalResult(h, label) ==
  LET activePlayers == FilterStatus(h.players, "active")
  IN  IF Len(activePlayers) = 0
        THEN [applied |-> FALSE]
        ELSE
          LET currentPlayer == activePlayers[(h.currentPlayerIndex % Len(activePlayers)) + 1]
              newScore == currentPlayer.score + ScoreChange(label, currentPlayer.score)
              updatedPlayers == SetScoreById(h.players, currentPlayer.id, newScore)
              playerIdx == FindIndexById(h.players, currentPlayer.id)
          IN  IF ReachedTarget(newScore, h.targetPoints)
                THEN [applied |-> TRUE, gameEnded |-> TRUE,
                      players |-> SetWinnerById(updatedPlayers, currentPlayer.id),
                      finalRankings |-> << >>,
                      currentPlayerIndex |-> h.currentPlayerIndex, advanced |-> FALSE,
                      roundUp |-> FALSE, autoSpin |-> FALSE]
                ELSE [applied |-> TRUE, gameEnded |-> FALSE, players |-> updatedPlayers,
                      finalRankings |-> << >>,
                      currentPlayerIndex |->
                        IF AdvancesTurn(label)
                          THEN getNextActivePlayerIndex(playerIdx, updatedPlayers)
                          ELSE h.currentPlayerIndex,
                      advanced |-> AdvancesTurn(label),
                      roundUp |-> FALSE,
                      autoSpin |-> (h.autoSpinEnabled /\ h.phase = "playing")]

\* handleResult: the dispatch on the mode the closure captured
handleResult(h, label, now, coin, pick) ==
  IF h.mode = "normal"
    THEN handleNormalResult(h, label)
    ELSE handleBattleResult(h, label, now, coin, pick)

\* ------------------------------------------------------------------ the state
VARIABLES
  mode,               \* useState<GameMode>
  savedMode,          \* localStorage "wheeloffortune_game_mode", "none" when absent
  phase,              \* useState<GamePhase>
  players,            \* useState<Player[]>
  currentPlayerIndex, \* useState(0), zero-based
  spinning,           \* useState(false), the busy flag
  round,              \* useState(1)
  autoSpinEnabled,    \* useState, from localStorage "wheeloffortune_auto_spin"
  finalRankings,      \* useState<BattleRoyaleRanking[]>
  targetPoints,       \* useState(500)
  playerIdCounter,    \* the module-level counter of createPlayer
  clock,              \* the last value Date.now() returned to an outcome handler
  autoSpinTimerRef,   \* autoSpinTimerRef.current, 0 for null
  autoSpinTimers,     \* ids of the pending auto-spin setTimeout callbacks
  rend,               \* the page state of the committed render, which its callbacks close over
  wheelProps,         \* the props of the Wheel in the committed render
  currentRotation,    \* currentRotationRef.current, kept modulo a full turn
  spinTimeoutRef,     \* spinTimeoutRef.current, 0 for null
  spinTimers          \* the pending spin-result setTimeout callbacks

pageVars == << mode, savedMode, phase, players, currentPlayerIndex, spinning, round,
               autoSpinEnabled, finalRankings, targetPoints, playerIdCounter, clock,
               autoSpinTimerRef, autoSpinTimers, rend >>

wheelVars == << wheelProps, currentRotation, spinTimeoutRef, spinTimers >>

vars == << mode, savedMode, phase, players, currentPlayerIndex, spinning, round,
           autoSpinEnabled, finalRankings, targetPoints, playerIdCounter, clock,
           autoSpinTimerRef, autoSpinTimers, rend,
           wheelProps, currentRotation, spinTimeoutRef, spinTimers >>

\* the state a render of Home reads
View ==
  [phase |-> phase, mode |-> mode, players |-> players,
   currentPlayerIndex |-> currentPlayerIndex, spinning |-> spinning, round |-> round,
   autoSpinEnabled |-> autoSpinEnabled, targetPoints |-> targetPoints]

\* a variant that does not look at the phase
canSpinAnyPhase(r) ==
  /\ ~r.spinning
  /\ ActiveCount(r.players) > 0
  /\ r.currentPlayerIndex < Len(r.players)
  /\ r.players[r.currentPlayerIndex + 1].status = "active"

canSpin(r) ==
  /\ r.phase = "playing"
  /\ ~r.spinning
  /\ ActiveCount(r.players) > 0
  /\ r.currentPlayerIndex < Len(r.players)
  /\ r.players[r.currentPlayerIndex + 1].status = "active"

\* <Wheel segments onResult spinning onSpinStart disabled ... />: the rig props are
\* not passed, so they take the defaults of the component
PageWheelProps(r) ==
  [segments |-> SegmentsOf(r.mode), disabled |-> ~canSpin(r), spinning |-> r.spinning,
   riggedEnabled |-> FALSE, currentPlayerName |-> NullName,
   riggedPlayerName |-> "Ari Santa"]

\* React commits a render of the state the handler left: synchronously at the
\* end of a click or change event, in a later task after a timer callback
Commit ==
  /\ rend' = [phase |-> phase', mode |-> mode', players |-> players',
              currentPlayerIndex |-> currentPlayerIndex', spinning |-> spinning',
              round |-> round', autoSpinEnabled |-> autoSpinEnabled',
              targetPoints |-> targetPoints']
  /\ wheelProps' = PageWheelProps(rend')

Committed == rend = View

TimerIds(timers) == {t.id : t \in timers}

\* the id setTimeout returns: one that no pending timer has
FreshId(ids) == CHOOSE n \in 1..(Cardinality(ids) + 1) :
                  n \notin ids /\ \A m \in 1..(n - 1) : m \in ids

Init ==
  /\ savedMode \in {"none"} \cup Modes
  /\ mode = IF savedMode \in Modes THEN savedMode ELSE "normal"
  /\ phase = "setup"
  /\ players = << >>
  /\ currentPlayerIndex = 0
  /\ spinning = FALSE
  /\ round = 1
  /\ autoSpinEnabled \in BOOLEAN
  /\ finalRankings = << >>
  /\ targetPoints = DEFAULT_TARGET
  /\ playerIdCounter = 0
  /\ clock = 0
  /\ autoSpinTimerRef = 0
  /\ autoSpinTimers = {}
  /\ rend = View
  /\ wheelProps = PageWheelProps(View)
  /\ currentRotation = 0
  /\ spinTimeoutRef = 0
  /\ spinTimers = {}

\* -------------------------------------------------------------- setup screen
\* a variant in which the add and remove controls are on every screen
RosterControlsAlways(r) == TRUE

\* the add and remove controls are rendered by SetupSplash, which is mounted when
\* phase === "setup"; the PlayerList of the other phases gets gameActive={true}
\* and hides them
RosterControlsShown(r) == r.phase = "setup"

onModeChange(newMode) ==
  /\ rend.phase = "setup"
  /\ mode' = newMode
  /\ players' = << >>
  /\ savedMode' = newMode
  /\ UNCHANGED << phase, currentPlayerIndex, spinning, round, autoSpinEnabled,
                  finalRankings, targetPoints, playerIdCounter, clock,
                  autoSpinTimerRef, autoSpinTimers,
                  currentRotation, spinTimeoutRef, spinTimers >>
  /\ Commit

\* addPlayer goes past its early return:
\* if (mode === "battle-royale" && players.length >= 64) return
AddAccepted(r) == ~(r.mode = "battle-royale" /\ Len(r.players) >= MAX_BATTLE_PLAYERS)

addPlayer(name) ==
  /\ RosterControlsShown(rend)
  /\ AddAccepted(rend)
  /\ Len(players) < MaxPlayers
  /\ playerIdCounter < MaxIds
  /\ players' = Append(players, createPlayer(name, playerIdCounter))
  /\ playerIdCounter' = playerIdCounter + 1
  /\ UNCHANGED << mode, savedMode, phase, currentPlayerIndex, spinning, round,
                  autoSpinEnabled, finalRankings, targetPoints, clock,
                  autoSpinTimerRef, autoSpinTimers,
                  currentRotation, spinTimeoutRef, spinTimers >>
  /\ Commit

removePlayer(id) ==
  /\ RosterControlsShown(rend)
  /\ \E i \in 1..Len(rend.players) : rend.players[i].id = id
  /\ players' = SelectSeq(players, LAMBDA p : p.id # id)
  /\ UNCHANGED << mode, savedMode, phase, currentPlayerIndex, spinning, round,
                  autoSpinEnabled, finalRankings, targetPoints, playerIdCounter, clock,
                  autoSpinTimerRef, autoSpinTimers,
                  currentRotation, spinTimeoutRef, spinTimers >>
  /\ Commit

\* the target input is rendered in normal mode only
onTargetPointsChange(points) ==
  /\ rend.phase = "setup"
  /\ rend.mode = "normal"
  /\ targetPoints' = points
  /\ UNCHANGED << mode, savedMode, phase, players, currentPlayerIndex, spinning, round,
                  autoSpinEnabled, finalRankings, playerIdCounter, clock,
                  autoSpinTimerRef, autoSpinTimers,
                  currentRotation, spinTimeoutRef, spinTimers >>
  /\ Commit

\* a variant that rejects only an empty roster
StartRejectedWhenEmpty(r) == Len(r.players) = 0

\* the two early returns of startGame
StartRejected(r) ==
  \/ r.mode = "normal" /\ Len(r.players) = 0
  \/ r.mode = "battle-royale" /\ Len(r.players) < 2

startGame ==
  /\ rend.phase = "setup"
  /\ rend.mode = "normal" => targetPoints <= MaxTarget
  /\ IF StartRejected(rend)
       THEN UNCHANGED << phase, currentPlayerIndex, round, players >>
       ELSE /\ phase' = "playing"
            /\ currentPlayerIndex' = 0
            /\ round' = 1
            /\ players' = ResetRuntime(players)
  /\ UNCHANGED << mode, savedMode, spinning, autoSpinEnabled, finalRankings,
                  targetPoints, playerIdCounter, clock,
                  autoSpinTimerRef, autoSpinTimers,
                  currentRotation, spinTimeoutRef, spinTimers >>
  /\ Commit

\* ------------------------------------------------------ cancellation helpers
\* clearTimeout(ref) on a set of pending timers; clearing null (0) or an id that
\* already fired removes nothing
ClearTimeout(timers, ref) == {t \in timers : t.id # ref}

\* a variant that leaves the timeout pending
cancelSpinKeepsTimeout(timers, ref) == timers

\* Wheel.cancelSpin: the pending spin-result timeouts it leaves
cancelSpin(timers, ref) == ClearTimeout(timers, ref)

\* a variant that leaves the auto-spin timer pending
ClearAutoSpinKeepsTimer(ids, ref) == ids

\* if (autoSpinTimerRef.current) clearTimeout(autoSpinTimerRef.current)
ClearAutoSpin(ids, ref) == ids \ {ref}

\* a variant of spin that does not clear the pending timeout
SpinKeepsPending(timers, ref) == timers

\* the "Clear any pending result timeout" block at the head of spin
SpinClearPending(timers, ref) == ClearTimeout(timers, ref)

\* a variant that schedules without cancelling
SupersedeKeepsTimer(ids, ref) == ids

\* the clearTimeout an outcome handler does before it schedules an auto-spin
SupersedeAutoSpin(ids, ref) == ids \ {ref}

\* ------------------------------------------------------------ page controls
\* what resetGame reads and writes
ResetScope ==
  [phase |-> phase, spinning |-> spinning, currentPlayerIndex |-> currentPlayerIndex,
   round |-> round, finalRankings |-> finalRankings, players |-> players,
   spinTimers |-> spinTimers, spinTimeoutRef |-> spinTimeoutRef,
   autoSpinTimers |-> autoSpinTimers, autoSpinTimerRef |-> autoSpinTimerRef]

\* a variant that starts the next match one round later
ResetOfKeepsCounting(st) ==
  [phase |-> "setup", spinning |-> FALSE, currentPlayerIndex |-> 0,
   round |-> st.round + 1, finalRankings |-> << >>,
   players |-> ResetRuntime(st.players),
   spinTimers |-> cancelSpin(st.spinTimers, st.spinTimeoutRef), spinTimeoutRef |-> 0,
   autoSpinTimers |-> ClearAutoSpin(st.autoSpinTimers, st.autoSpinTimerRef),
   autoSpinTimerRef |-> 0]

\* the body of resetGame as a function of that state
ResetOf(st) ==
  [phase |-> "setup", spinning |-> FALSE, currentPlayerIndex |-> 0,
   round |-> 1, finalRankings |-> << >>,
   players |-> ResetRuntime(st.players),
   spinTimers |-> cancelSpin(st.spinTimers, st.spinTimeoutRef), spinTimeoutRef |-> 0,
   autoSpinTimers |-> ClearAutoSpin(st.autoSpinTimers, st.autoSpinTimerRef),
   autoSpinTimerRef |-> 0]

\* the Reset Game button, rendered when phase is playing or finished
resetGame ==
  /\ rend.phase # "setup"
  /\ LET after == ResetOf(ResetScope)
     IN  /\ spinTimers' = after.spinTimers
         /\ spinTimeoutRef' = after.spinTimeoutRef
         /\ autoSpinTimers' = after.autoSpinTimers
         /\ autoSpinTimerRef' = after.autoSpinTimerRef
         /\ phase' = after.phase
         /\ spinning' = after.spinning
         /\ currentPlayerIndex' = after.currentPlayerIndex
         /\ round' = after.round
         /\ finalRankings' = after.finalRankings
         /\ players' = after.players
  /\ UNCHANGED << mode, savedMode, autoSpinEnabled, targetPoints, playerIdCounter,
                  clock, currentRotation >>
  /\ Commit

onPlayAgain ==
  /\ rend.phase = "finished"
  /\ phase' = "playing"
  /\ currentPlayerIndex' = 0
  /\ round' = 1
  /\ finalRankings' = << >>
  /\ players' = ResetAll(players)
  /\ UNCHANGED << mode, savedMode, spinning, autoSpinEnabled, targetPoints,
                  playerIdCounter, clock, autoSpinTimerRef, autoSpinTimers,
                  currentRotation, spinTimeoutRef, spinTimers >>
  /\ Commit

onNewGame ==
  /\ rend.phase = "finished"
  /\ spinTimers' = cancelSpin(spinTimers, spinTimeoutRef)
  /\ spinTimeoutRef' = 0
  /\ autoSpinTimers' = ClearAutoSpin(autoSpinTimers, autoSpinTimerRef)
  /\ autoSpinTimerRef' = 0
  /\ phase' = "setup"
  /\ spinning' = FALSE
  /\ currentPlayerIndex' = 0
  /\ round' = 1
  /\ finalRankings' = << >>
  /\ players' = << >>
  /\ mode' = IF savedMode \in Modes THEN savedMode ELSE "normal"
  /\ targetPoints' = DEFAULT_TARGET
  /\ UNCHANGED << savedMode, autoSpinEnabled, playerIdCounter, clock, currentRotation >>
  /\ Commit

\* the checkbox reports the opposite of the value it was rendered with
onAutoSpinChange ==
  /\ rend.phase = "playing"
  /\ LET enabled == ~rend.autoSpinEnabled
     IN  /\ autoSpinEnabled' = enabled
         /\ IF ~enabled /\ autoSpinTimerRef # 0
              THEN /\ autoSpinTimers' = ClearAutoSpin(autoSpinTimers, autoSpinTimerRef)
                   /\ autoSpinTimerRef' = 0
              ELSE UNCHANGED << autoSpinTimers, autoSpinTimerRef >>
  /\ UNCHANGED << mode, savedMode, phase, players, currentPlayerIndex, spinning, round,
                  finalRankings, targetPoints, playerIdCounter, clock,
                  currentRotation, spinTimeoutRef, spinTimers >>
  /\ Commit

\* ------------------------------------------------------------------ the wheel
\* the draws of the match: fullRotations * 360 and Math.random() * 360
MatchTurnDraws == {3 * FULL_TURN}
MatchAngleDraws == {k * segmentAngle(8) : k \in 0..7}

\* the values Math.floor(Math.random() * favorableIndices.length) takes on the
\* rigged path; no such draw is made otherwise
PickDraws(props) ==
  IF IsRiggedSpin(props) /\ Len(FavorableIndices(props.segments)) > 0
    THEN 0..(Len(FavorableIndices(props.segments)) - 1)
    ELSE {0}

\* spin() from a render in which it is not disabled and not spinning: the part
\* after onSpinStart(). onResult is the handler of that render
spinBody(onResult, turns, randomAngle, pick) ==
  LET out == ResolveSpin(wheelProps, currentRotation, turns, randomAngle, pick)
      pending == SpinClearPending(spinTimers, spinTimeoutRef)
      id == FreshId(TimerIds(pending))
  IN  /\ currentRotation' = out.newRotation % FULL_TURN
      /\ spinTimeoutRef' = id
      /\ spinTimers' = pending \cup
           {[id |-> id, segmentIndex |-> out.segmentIndex,
             n |-> Len(wheelProps.segments), branch |-> out.branch,
             candidate |-> out.candidateRotation % FULL_TURN,
             segment |-> IF out.segmentIndex < Len(wheelProps.segments)
                           THEN wheelProps.segments[out.segmentIndex + 1]
                           ELSE "undefined",
             onResult |-> onResult]}

\* handleSpinStart: setSpinning(true)
handleSpinStart == spinning' = TRUE

\* a click on the Spin button, which is rendered disabled when disabled || spinning
spin ==
  /\ ~(wheelProps.disabled \/ wheelProps.spinning)
  /\ handleSpinStart
  /\ \E pick \in PickDraws(wheelProps) :
       \E turns \in MatchTurnDraws, randomAngle \in MatchAngleDraws :
         spinBody(rend, turns, randomAngle, pick)
  /\ UNCHANGED << mode, savedMode, phase, players, currentPlayerIndex, round,
                  autoSpinEnabled, finalRankings, targetPoints, playerIdCounter, clock,
                  autoSpinTimerRef, autoSpinTimers >>
  /\ Commit

\* the auto-spin timer fires: wheelRef.current?.spin(), the spin of the committed
\* render, which returns at once when disabled || spinning
autoSpinFire(id) ==
  /\ id \in autoSpinTimers
  /\ Committed
  /\ autoSpinTimers' = autoSpinTimers \ {id}
  /\ IF wheelProps.disabled \/ wheelProps.spinning
       THEN UNCHANGED << spinning, currentRotation, spinTimeoutRef, spinTimers >>
       ELSE /\ handleSpinStart
            /\ \E pick \in PickDraws(wheelProps) :
                 \E turns \in MatchTurnDraws, randomAngle \in MatchAngleDraws :
                   spinBody(rend, turns, randomAngle, pick)
  /\ UNCHANGED << mode, savedMode, phase, players, currentPlayerIndex, round,
                  autoSpinEnabled, finalRankings, targetPoints, playerIdCounter, clock,
                  autoSpinTimerRef, rend, wheelProps >>

\* the render React commits after a timer callback changed the state
Render ==
  /\ ~Committed
  /\ rend' = View
  /\ wheelProps' = PageWheelProps(View)
  /\ UNCHANGED << mode, savedMode, phase, players, currentPlayerIndex, spinning, round,
                  autoSpinEnabled, finalRankings, targetPoints, playerIdCounter, clock,
                  autoSpinTimerRef, autoSpinTimers,
                  currentRotation, spinTimeoutRef, spinTimers >>

\* the draws of an outcome: Math.random() < 0.5 for Sudden Death, and the floored
\* random index of Double Elim and Extra Life
CoinDraws(h, label) ==
  IF h.mode # "normal" /\ label = "Sudden Death" THEN BOOLEAN ELSE {TRUE}

IndexDraws(h, label) ==
  IF h.mode # "normal" /\ PickRange(h.players, h.currentPlayerIndex, label) > 0
    THEN 0..(PickRange(h.players, h.currentPlayerIndex, label) - 1)
    ELSE {0}

\* the outcome stays inside the explored scores, rounds and clock readings
InBounds(res, label, coin) ==
  /\ \A i \in 1..Len(res.players) : res.players[i].score >= -MaxDebt
  /\ res.roundUp => round < MaxRound
  /\ ReadsClock(label, coin) => clock + SPIN_MS <= MaxEliminations * SPIN_MS

\* the spin-result timeout fires: spinTimeoutRef.current = null; onResult(segment, index)
\* with the handler the spin captured. Date.now() is at least SPIN_MS after the
\* reading of the previous outcome
spinTimeoutFire(t) ==
  /\ t \in spinTimers
  /\ Committed
  /\ spinTimeoutRef' = 0
  /\ spinTimers' = spinTimers \ {t}
  /\ \E coin \in CoinDraws(t.onResult, t.segment), pick \in IndexDraws(t.onResult, t.segment) :
       LET h == t.onResult
           now == clock + SPIN_MS
           res == handleResult(h, t.segment, now, coin, pick)
       IN  IF ~res.applied
             THEN UNCHANGED << players, phase, finalRankings, currentPlayerIndex,
                               round, spinning, clock, autoSpinTimers,
                               autoSpinTimerRef >>
             ELSE /\ InBounds(res, t.segment, coin)
                  /\ players' = res.players
                  /\ clock' = IF h.mode # "normal" /\ ReadsClock(t.segment, coin)
                                THEN now ELSE clock
                  /\ IF res.gameEnded
                       THEN /\ phase' = "finished"
                            /\ finalRankings' =
                                 IF h.mode = "normal" THEN finalRankings
                                 ELSE res.finalRankings
                            /\ UNCHANGED << currentPlayerIndex, round >>
                       ELSE /\ currentPlayerIndex' =
                                 IF res.advanced THEN res.currentPlayerIndex
                                 ELSE currentPlayerIndex
                            /\ round' = IF res.roundUp THEN round + 1 ELSE round
                            /\ UNCHANGED << phase, finalRankings >>
                  /\ spinning' = FALSE
                  /\ IF res.autoSpin
                       THEN LET kept == SupersedeAutoSpin(autoSpinTimers, autoSpinTimerRef)
                                id == FreshId(kept)
                            IN  /\ autoSpinTimers' = kept \cup {id}
                                /\ autoSpinTimerRef' = id
                       ELSE UNCHANGED << autoSpinTimers, autoSpinTimerRef >>
  /\ UNCHANGED << mode, savedMode, autoSpinEnabled, targetPoints, playerIdCounter,
                  rend, wheelProps, currentRotation >>

Next ==
  \/ \E m \in Modes : onModeChange(m)
  \/ \E name \in NamesFor(playerIdCounter) : addPlayer(name)
  \/ \E id \in 1..MaxIds : removePlayer(id)
  \/ \E points \in TargetChoices : onTargetPointsChange(points)
  \/ startGame
  \/ resetGame
  \/ onPlayAgain
  \/ onNewGame
  \/ onAutoSpinChange
  \/ spin
  \/ \E id \in autoSpinTimers : autoSpinFire(id)
  \/ \E t \in spinTimers : spinTimeoutFire(t)
  \/ Render

Spec == Init /\ [][Next]_vars

\* --------------------------------------------- a battle royale match under way
\* the state after three or four addPlayer calls and startGame in battle royale mode
BattleRosters ==
  { << createPlayer("Ann", 0), createPlayer("Bob", 1), createPlayer(third, 2) >> :
      third \in {"Ann", "Cat"} }
    \cup { << createPlayer("Ann", 0), createPlayer("Bob", 1), createPlayer("Cat", 2),
             createPlayer("Dan", 3) >> }

InitBattle ==
  /\ savedMode = "battle-royale"
  /\ mode = "battle-royale"
  /\ phase = "playing"
  /\ players \in BattleRosters
  /\ currentPlayerIndex = 0
  /\ spinning = FALSE
  /\ round = 1
  /\ autoSpinEnabled \in BOOLEAN
  /\ finalRankings = << >>
  /\ targetPoints = DEFAULT_TARGET
  /\ playerIdCounter = Len(players)
  /\ clock = 0
  /\ autoSpinTimerRef = 0
  /\ autoSpinTimers = {}
  /\ rend = View
  /\ wheelProps = PageWheelProps(View)
  /\ currentRotation = 0
  /\ spinTimeoutRef = 0
  /\ spinTimers = {}

\* the operations the match screens offer
NextMatch ==
  \/ onPlayAgain
  \/ onAutoSpinChange
  \/ spin
  \/ \E id \in autoSpinTimers : autoSpinFire(id)
  \/ \E t \in spinTimers : spinTimeoutFire(t)
  \/ Render

SpecBattle == InitBattle /\ [][NextMatch]_vars

\* ------------------------------------------------ the Wheel component on its own
\* a parent that renders <Wheel> with any segment list and rig props, keeps the
\* busy flag as Home does (handleSpinStart, setSpinning(false) on the result) and
\* may cancel the spin through the ref
\* riggedEnabled and currentPlayerName as a parent may pass them
WheelRigProps ==
  { << FALSE, NullName >>, << FALSE, "Ari Santa" >>,
    << TRUE, "ari santa" >>, << TRUE, "Bob" >>, << TRUE, NullName >> }

\* fullRotations * 360 for fullRotations in [3, 6): whole and fractional turns
WheelTurnDraws ==
  { 3 * FULL_TURN, 3 * FULL_TURN + 1, 3 * FULL_TURN + FULL_TURN \div 2, 6 * FULL_TURN - 1 }

\* Math.random() * 360; with every start rotation these give every landing angle
WheelAngleDraws == { 0, 1, FULL_TURN - 1 }

InitWheel ==
  /\ savedMode = "none"
  /\ mode = "normal"
  /\ phase = "playing"
  /\ players = << createPlayer("Ari Santa", 0) >>
  /\ currentPlayerIndex = 0
  /\ spinning = FALSE
  /\ round = 1
  /\ autoSpinEnabled = FALSE
  /\ finalRankings = << >>
  /\ targetPoints = DEFAULT_TARGET
  /\ playerIdCounter = 1
  /\ clock = 0
  /\ autoSpinTimerRef = 0
  /\ autoSpinTimers = {}
  /\ rend = View
  /\ \E segs \in WheelSegmentLists, rig \in WheelRigProps :
       wheelProps = [segments |-> segs, disabled |-> FALSE, spinning |-> FALSE,
                     riggedEnabled |-> rig[1], currentPlayerName |-> rig[2],
                     riggedPlayerName |-> "Ari Santa"]
  /\ currentRotation \in 0..(FULL_TURN - 1)
  /\ spinTimeoutRef = 0
  /\ spinTimers = {}

\* the parent re-renders the Wheel with its busy flag
WheelRerender(busy) ==
  /\ spinning' = busy
  /\ wheelProps' = [wheelProps EXCEPT !.spinning = busy]
  /\ UNCHANGED << mode, savedMode, phase, players, currentPlayerIndex, round,
                  autoSpinEnabled, finalRankings, targetPoints, playerIdCounter, clock,
                  autoSpinTimerRef, autoSpinTimers, rend >>

wheelSpin ==
  /\ ~(wheelProps.disabled \/ wheelProps.spinning)
  /\ \E pick \in PickDraws(wheelProps) :
       \E turns \in WheelTurnDraws, randomAngle \in WheelAngleDraws :
         spinBody(rend, turns, randomAngle, pick)
  /\ WheelRerender(TRUE)

\* the spin-result timeout of the Wheel fires
wheelResult(t) ==
  /\ t \in spinTimers
  /\ spinTimeoutRef' = 0
  /\ spinTimers' = spinTimers \ {t}
  /\ UNCHANGED currentRotation
  /\ WheelRerender(FALSE)

\* wheelRef.current.cancelSpin() and setSpinning(false)
wheelCancel ==
  /\ spinTimers # {}
  /\ spinTimers' = cancelSpin(spinTimers, spinTimeoutRef)
  /\ spinTimeoutRef' = 0
  /\ UNCHANGED currentRotation
  /\ WheelRerender(FALSE)

NextWheel ==
  \/ wheelSpin
  \/ \E t \in spinTimers : wheelResult(t)
  \/ wheelCancel

SpecWheel == InitWheel /\ [][NextWheel]_vars

\* ------------------------------- the turn sequencer and the ranking calculator
\* rosters in any state a match can leave them in, and some it cannot: each player
\* active, winner, or eliminated with one of MaxKeys timestamps
RosterVariants ==
  { [status |-> "active", timestamp |-> 0], [status |-> "winner", timestamp |-> 0] }
    \cup { [status |-> "eliminated", timestamp |-> k] : k \in 1..MaxKeys }

RosterPlayer(i, v) ==
  [createPlayer(TypedNames[((i - 1) % Len(TypedNames)) + 1], i - 1) EXCEPT
     !.status = v.status,
     !.eliminationData =
        IF v.status = "eliminated"
          THEN [cause |-> "Defeat", eliminatedBy |-> "", round |-> 1,
                timestamp |-> v.timestamp]
          ELSE NoElimination]

AllRosters ==
  UNION { { [i \in 1..n |-> RosterPlayer(i, f[i])] : f \in [1..n -> RosterVariants] } :
          n \in 1..MaxRoster }

\* an outcome handler is about to run: the wheel has stopped, spinning is still true
InitRoster ==
  /\ savedMode = "battle-royale"
  /\ mode = "battle-royale"
  /\ phase = "playing"
  /\ players \in AllRosters
  /\ currentPlayerIndex \in 0..(Len(players) - 1)
  /\ spinning = TRUE
  /\ round = 1
  /\ autoSpinEnabled = FALSE
  /\ finalRankings = << >>
  /\ targetPoints = DEFAULT_TARGET
  /\ playerIdCounter = Len(players)
  /\ clock = MaxKeys
  /\ autoSpinTimerRef = 0
  /\ autoSpinTimers = {}
  /\ rend = View
  /\ wheelProps = PageWheelProps(View)
  /\ currentRotation = 0
  /\ spinTimeoutRef = 0
  /\ spinTimers = {}

\* setCurrentPlayerIndex(getNextActivePlayerIndex(currentPlayerIndex, updatedPlayers));
\* setSpinning(false), with the values of the committed render
advanceTurn ==
  /\ rend.spinning
  /\ spinning
  /\ currentPlayerIndex' = getNextActivePlayerIndex(rend.currentPlayerIndex, rend.players)
  /\ spinning' = FALSE
  /\ UNCHANGED << mode, savedMode, phase, players, round, autoSpinEnabled,
                  finalRankings, targetPoints, playerIdCounter, clock,
                  autoSpinTimerRef, autoSpinTimers, rend,
                  wheelProps, currentRotation, spinTimeoutRef, spinTimers >>

\* setFinalRankings(calculateRankings(updatedPlayers, round)); setPhase("finished")
rankPlayers ==
  /\ phase = "playing"
  /\ finalRankings' = calculateRankings(players, round)
  /\ phase' = "finished"
  /\ UNCHANGED << mode, savedMode, players, currentPlayerIndex, spinning, round,
                  autoSpinEnabled, targetPoints, playerIdCounter, clock,
                  autoSpinTimerRef, autoSpinTimers, rend,
                  wheelProps, currentRotation, spinTimeoutRef, spinTimers >>

NextRoster ==
  \/ advanceTurn
  \/ rankPlayers
  \/ Render

SpecRoster == InitRoster /\ [][NextRoster]_vars

\* ------------------------------------------- an outcome handler on any roster
\* handleResult is called with a roster in any state, a turn index that may be past
\* the end, in either mode: the spin-result timeout is pending and its closure
\* holds that state
OutcomeLabels(m) == {SegmentsOf(m)[k] : k \in 1..Len(SegmentsOf(m))}

InitOutcome ==
  /\ mode \in Modes
  /\ savedMode = mode
  /\ phase = "playing"
  /\ players \in AllRosters
  /\ currentPlayerIndex \in 0..Len(players)
  /\ spinning = TRUE
  /\ round = 1
  /\ autoSpinEnabled = FALSE
  /\ finalRankings = << >>
  /\ targetPoints = MIN_TARGET
  /\ playerIdCounter = Len(players)
  /\ clock = 0
  /\ autoSpinTimerRef = 0
  /\ autoSpinTimers = {}
  /\ rend = View
  /\ wheelProps = PageWheelProps(View)
  /\ currentRotation = 0
  /\ spinTimeoutRef = 1
  /\ \E label \in OutcomeLabels(mode) :
       spinTimers = {[id |-> 1, segmentIndex |-> 0, n |-> Len(SegmentsOf(mode)),
                      branch |-> "unrigged", candidate |-> 0, segment |-> label,
                      onResult |-> View]}

NextOutcome ==
  \/ \E t \in spinTimers : spinTimeoutFire(t)
  \/ Render

SpecOutcome == InitOutcome /\ [][NextOutcome]_vars

\* ------------------------------------------------- the setup screen filling up
\* the names the FC members request returned, offered by "Add All"
PresetPlayers == << "Eve", "Fay" >>

RosterNames(ps) == {ps[i].name : i \in 1..Len(ps)}

\* setPlayers((prev) => [...prev, createPlayer(name)]) once per name, the module
\* counter running on
RECURSIVE AppendPlayers(_, _, _)
AppendPlayers(ps, names, counter) ==
  IF names = << >> THEN ps
  ELSE AppendPlayers(Append(ps, createPlayer(Head(names), counter)), Tail(names), counter + 1)

InitSetup ==
  /\ mode \in Modes
  /\ savedMode = mode
  /\ phase = "setup"
  /\ players = << >>
  /\ currentPlayerIndex = 0
  /\ spinning = FALSE
  /\ round = 1
  /\ autoSpinEnabled = FALSE
  /\ finalRankings = << >>
  /\ targetPoints = DEFAULT_TARGET
  /\ playerIdCounter = 0
  /\ clock = 0
  /\ autoSpinTimerRef = 0
  /\ autoSpinTimers = {}
  /\ rend = View
  /\ wheelProps = PageWheelProps(View)
  /\ currentRotation = 0
  /\ spinTimeoutRef = 0
  /\ spinTimers = {}

\* the Add button of SetupSplash: handleAddPlayer -> onAddPlayer(name)
setupAddPlayer(name) ==
  /\ RosterControlsShown(rend)
  /\ AddAccepted(rend)
  /\ Len(players) < MAX_BATTLE_PLAYERS + MaxOver
  /\ players' = AppendPlayers(players, << name >>, playerIdCounter)
  /\ playerIdCounter' = playerIdCounter + 1
  /\ UNCHANGED << mode, savedMode, phase, currentPlayerIndex, spinning, round,
                  autoSpinEnabled, finalRankings, targetPoints, clock,
                  autoSpinTimerRef, autoSpinTimers,
                  currentRotation, spinTimeoutRef, spinTimers >>
  /\ Commit

\* the Add All button: onAddPlayer(name) for every preset name not yet in the
\* roster, all calls made with the addPlayer of the committed render
setupAddAll ==
  /\ RosterControlsShown(rend)
  /\ Len(players) < MAX_BATTLE_PLAYERS + MaxOver
  /\ LET missing == SelectSeq(PresetPlayers, LAMBDA n : n \notin RosterNames(rend.players))
         accepted == IF AddAccepted(rend) THEN missing ELSE << >>
     IN  /\ players' = AppendPlayers(players, accepted, playerIdCounter)
         /\ playerIdCounter' = playerIdCounter + Len(accepted)
  /\ UNCHANGED << mode, savedMode, phase, currentPlayerIndex, spinning, round,
                  autoSpinEnabled, finalRankings, targetPoints, clock,
                  autoSpinTimerRef, autoSpinTimers,
                  currentRotation, spinTimeoutRef, spinTimers >>
  /\ Commit

NextSetup ==
  \/ \E name \in NamesFor(playerIdCounter) : setupAddPlayer(name)
  \/ setupAddAll

SpecSetup == InitSetup /\ [][NextSetup]_vars

\* ------------------------------------------------------------------ properties
Winners(ps) == IndicesWith(ps, "winner")

NotEliminated(ps) == {i \in 0..(Len(ps) - 1) : ps[i + 1].status # "eliminated"}

Reached(ps, target) == {i \in 0..(Len(ps) - 1) : ps[i + 1].score >= target}

\* a step in which a spin-result timeout fired: a pending outcome went away and the
\* committed render stayed (a click that cancels a spin commits a new render)
OutcomeStep ==
  /\ spinTimers' # spinTimers
  /\ spinTimers' \subseteq spinTimers
  /\ rend' = rend

\* a step in which an auto-spin timer fired
AutoSpinStep ==
  /\ autoSpinTimers' # autoSpinTimers
  /\ autoSpinTimers' \subseteq autoSpinTimers
  /\ rend' = rend

C1_Outcome ==
  (mode = "battle-royale" /\ OutcomeStep) =>
    /\ Cardinality(NotEliminated(players')) <= 1 => phase' = "finished"
    /\ Cardinality(NotEliminated(players')) = 1 =>
         Winners(players') = NotEliminated(players')

C1_Finished ==
  (mode = "battle-royale" /\ phase = "finished") =>
    /\ Cardinality(Winners(players)) <= 1
    /\ Winners(players) = NotEliminated(players)

\* C1: in battle royale, a step that delivers an outcome and leaves at most one
\* player not eliminated ends in phase finished; if exactly one is left, that
\* player and nobody else is the winner; every finished battle royale state has at
\* most one winner, and its winner is exactly the player who was not eliminated.
C1_BattleRoyaleEndsWithSoleWinner == [][C1_Outcome]_vars /\ []C1_Finished

\* a finished battle royale match with two players eliminated and the third the winner
C1_Witness ==
  /\ mode = "battle-royale"
  /\ phase = "finished"
  /\ Cardinality(Winners(players)) = 1
  /\ Cardinality(IndicesWith(players, "eliminated")) = Len(players) - 1

C2_Outcome ==
  (mode = "normal" /\ phase = "playing" /\ OutcomeStep) =>
    IF Reached(players', targetPoints) # {}
      THEN /\ phase' = "finished"
           /\ Winners(players') = Reached(players', targetPoints)
           /\ Cardinality(Winners(players')) = 1
           /\ currentPlayerIndex' = currentPlayerIndex
           /\ autoSpinTimers' = autoSpinTimers
           /\ autoSpinTimerRef' = autoSpinTimerRef
      ELSE /\ phase' = "playing"
           /\ Winners(players') = {}

\* C2: in normal mode, a step that delivers an outcome and leaves a player with a
\* score of at least targetPoints makes exactly that player the winner, sets the
\* phase to finished, keeps the turn index and schedules no auto-spin; a step that
\* leaves every score below targetPoints keeps the phase playing with no winner.
C2_NormalWinAtTarget == [][C2_Outcome]_vars

\* a normal match with auto-spin on that ended with a score equal to the target,
\* and no auto-spin timer pending
C2_Witness ==
  /\ mode = "normal"
  /\ phase = "finished"
  /\ autoSpinEnabled
  /\ autoSpinTimers = {}
  /\ \E i \in 1..Len(players) :
       players[i].status = "winner" /\ players[i].score = targetPoints

PhaseChanges ==
  { << "setup", "playing" >>, << "playing", "finished" >>, << "finished", "playing" >>,
    << "playing", "setup" >>, << "finished", "setup" >> }

C3_Step ==
  /\ phase' # phase => << phase, phase' >> \in PhaseChanges
  /\ (phase = "setup" /\ OutcomeStep) => phase' = "setup"

\* C3: the phase only ever changes setup -> playing, playing -> finished,
\* finished -> playing, playing -> setup or finished -> setup; it never goes from
\* setup to finished, and a step that delivers a spin outcome while the phase is
\* setup leaves it setup.
C3_PhaseTransitions == [][C3_Step]_vars

\* back on the setup screen after a battle royale match in which a player was eliminated
C3_Witness == phase = "setup" /\ clock > 0 /\ playerIdCounter > 0

C4_NoOp ==
  (AutoSpinStep /\ (wheelProps.disabled \/ wheelProps.spinning)) =>
    UNCHANGED << currentRotation, spinTimers, spinTimeoutRef, players, phase,
                 currentPlayerIndex, round, spinning, finalRankings >>

\* C4: at most one spin-result timeout is pending in every reachable state, also
\* after a spin of the auto-spin timer followed by a click on the render that has
\* not seen the busy flag yet; and a spin requested by the auto-spin timer while
\* the wheel is disabled or spinning leaves the rotation, the pending outcome and
\* the match state as they were.
C4_OnePendingOutcome == [](Cardinality(spinTimers) <= 1) /\ [][C4_NoOp]_vars

\* a spin is in flight, and the committed render, whose Spin button is enabled,
\* has not seen the busy flag
C4_Witness ==
  /\ spinning
  /\ ~wheelProps.spinning
  /\ ~wheelProps.disabled
  /\ Cardinality(spinTimers) = 1

\* C5: whenever the phase is setup (so after every resetGame and New Game, whatever
\* was in flight), no spin-result timeout and no auto-spin timer is pending and
\* the busy flag is false.
C5_SetupHasNothingPending ==
  phase = "setup" => spinTimers = {} /\ autoSpinTimers = {} /\ ~spinning

\* the setup screen with the roster kept, after a match in which the wheel was spun
C5_Witness ==
  /\ phase = "setup"
  /\ Len(players) > 0
  /\ currentRotation # 0
  /\ spinTimeoutRef = 0
  /\ autoSpinTimerRef = 0

\* C6: at most one auto-spin timer is pending in every reachable state, and it is
\* the one autoSpinTimerRef holds.
C6_OneAutoSpinTimer ==
  Cardinality(autoSpinTimers) <= 1 /\ autoSpinTimers \subseteq {autoSpinTimerRef}

\* an auto-spin timer is pending while a spin is in flight whose handler will
\* schedule the next one
C6_Witness ==
  /\ Cardinality(autoSpinTimers) = 1
  /\ \E t \in spinTimers : t.onResult.autoSpinEnabled /\ t.onResult.phase = "playing"

\* floor(((360 - R mod 360) mod 360) / (360 / N)) mod N: the segment under the marker
MarkerIndex(R, n) ==
  (((FULL_TURN - (R % FULL_TURN)) % FULL_TURN) \div (FULL_TURN \div n)) % n

\* the zero-based indices of the segments whose label contains a favourable label
Favoured(segs) ==
  {i \in 0..(Len(segs) - 1) :
     \E k \in 1..Len(favorableLabels) : Includes(segs[i + 1], favorableLabels[k])}

\* C7: the segmentIndex of every pending spin outcome, rigged or not, is at least 0
\* and less than the number of segments of the wheel that was spun.
C7_IndexInRange ==
  \A t \in spinTimers : t.segmentIndex >= 0 /\ t.segmentIndex < t.n

\* an unrigged spin of a five-segment wheel that delivers the last index
C7_Witness ==
  \E t \in spinTimers : t.branch # "rigged" /\ t.n = 5 /\ t.segmentIndex = t.n - 1

\* C8: after an unrigged spin, whichever branch of the dead-zone correction ran,
\* the segment under the marker at the rotation applied to the wheel is the
\* segmentIndex that will be delivered.
C8_UnriggedRoundTrip ==
  \A t \in spinTimers :
    t.branch # "rigged" => t.segmentIndex = MarkerIndex(currentRotation, t.n)

\* an unrigged spin whose landing point was pushed from the first 15% of a segment
C8_Witness == \E t \in spinTimers : t.branch = "low" /\ t.segmentIndex > 0

\* C9: after a rigged spin, for every full-turns draw, the segment under the marker
\* at the rotation applied to the wheel is the segmentIndex that will be delivered.
C9_RiggedLandsOnChosen ==
  \A t \in spinTimers :
    t.branch = "rigged" => MarkerIndex(currentRotation, t.n) = t.segmentIndex

\* C10: a rigged spin delivers an index of the favoured set of the wheel's segments
\* when that set is not empty, and index 0 when it is empty.
C10_RiggedIndexFavoured ==
  \A t \in spinTimers :
    t.branch = "rigged" =>
      IF Favoured(wheelProps.segments) # {}
        THEN t.segmentIndex \in Favoured(wheelProps.segments)
        ELSE t.segmentIndex = 0

\* a rigged spin that delivers the last segment, whose label contains "Bonus Round"
C10_Witness ==
  \E t \in spinTimers :
    t.branch = "rigged" /\ t.segment = "Super Bonus Round" /\ t.segmentIndex = 4

\* the spellings of the rigged player's name that differ in case only
AriSantaSpellings == { "Ari Santa", "ari santa", "ARI SANTA", "aRI sANTA" }

\* the spin is one the rig applies to: toggle on, and the current player is the rigged player
RigApplies(props) ==
  props.riggedEnabled /\ props.currentPlayerName \in AriSantaSpellings

\* (pointerAngle % segmentAngle) of a rotation, in ticks
PositionInSegment(R, n) ==
  ((FULL_TURN - (R % FULL_TURN)) % FULL_TURN) % (FULL_TURN \div n)

\* pos is within one tick of the fraction num/4 of a segment of sa ticks
AtQuarterMark(pos, num, sa) ==
  4 * pos - num * sa < 4 /\ num * sa - 4 * pos < 4

\* C11: after an unrigged spin, if the candidate rotation's position in its segment
\* was below 0.15 the applied rotation's position is 0.25, if it was above 0.85 the
\* applied rotation's position is 0.75, and otherwise the applied rotation is the
\* candidate; in every case the applied position is at least 0.15 and at most 0.85.
C11_DeadZoneCorrection ==
  \A t \in spinTimers :
    ~RigApplies(wheelProps) =>
      LET sa == FULL_TURN \div t.n
          before == PositionInSegment(t.candidate, t.n)
          after == PositionInSegment(currentRotation, t.n)
      IN  /\ 100 * before < 15 * sa => AtQuarterMark(after, 1, sa)
          /\ 100 * before > 85 * sa => AtQuarterMark(after, 3, sa)
          /\ (100 * before >= 15 * sa /\ 100 * before <= 85 * sa) =>
               currentRotation = t.candidate
          /\ 100 * after >= 15 * sa
          /\ 100 * after <= 85 * sa

\* an unrigged spin whose candidate fell in the last 15% of a segment and was moved
C11_Witness ==
  \E t \in spinTimers :
    /\ ~RigApplies(wheelProps)
    /\ 100 * PositionInSegment(t.candidate, t.n) > 85 * (FULL_TURN \div t.n)
    /\ currentRotation # t.candidate

\* C12: a spin takes the rigged path exactly when the rig toggle is on and the
\* current player's name is the rigged player's name up to case; with the toggle
\* off, another current player or no current player it takes the unrigged path.
C12_RiggedOnlyForRiggedPlayer ==
  \A t \in spinTimers : (t.branch = "rigged") <=> RigApplies(wheelProps)

\* an unrigged spin with the toggle on and another player at the wheel
C12_Witness ==
  \E t \in spinTimers :
    /\ t.branch # "rigged"
    /\ wheelProps.riggedEnabled
    /\ wheelProps.currentPlayerName = "Bob"

\* the first active player met scanning circularly from from + 1, from itself last
FirstActiveAfter(from, ps) ==
  LET n == Len(ps)
      k == CHOOSE k \in 1..n :
             /\ ps[((from + k) % n) + 1].status = "active"
             /\ \A j \in 1..(k - 1) : ps[((from + j) % n) + 1].status # "active"
  IN  (from + k) % n

\* the turn index was just set from the committed render's index
TurnAdvanced == rend.spinning /\ ~spinning

\* C13: when the roster has an active player, the index getNextActivePlayerIndex
\* returns is the first active player met scanning circularly from fromIndex + 1
\* (fromIndex itself when nobody else is active), so it is the index of an active
\* player, and the loop runs at most roster-length times.
C13_NextActiveIsFirstActive ==
  (TurnAdvanced /\ ActiveCount(players) >= 1) =>
    /\ currentPlayerIndex = FirstActiveAfter(rend.currentPlayerIndex, players)
    /\ players[currentPlayerIndex + 1].status = "active"
    /\ NextActiveLoop((rend.currentPlayerIndex + 1) % Len(players), 0, players).attempts
         <= Len(players)

\* the sequencer wrapped around past two non-active players and came back to the
\* caller's own index, the only active one
C13_Witness ==
  /\ TurnAdvanced
  /\ Len(players) = 3
  /\ ActiveCount(players) = 1
  /\ currentPlayerIndex = rend.currentPlayerIndex
  /\ players[currentPlayerIndex + 1].status = "active"

RosterIndexOf(entry) == CHOOSE i \in 1..Len(players) : players[i].id = entry.playerId
ElimKey(i) == players[i].eliminationData.timestamp

\* C15: the rankings put the winner, if any, at rank 1 and the eliminated players
\* at ranks 2, 3, ... in order of descending elimination timestamp, players of the
\* same timestamp in roster order; without a winner no entry has rank 1 and the
\* ranks start at 2.
C15_RankingOrder ==
  phase = "finished" =>
    LET W == IndicesWith(players, "winner")
        E == {i \in 1..Len(players) : players[i].status = "eliminated"}
        off == IF W = {} THEN 0 ELSE 1
    IN  /\ Len(finalRankings) = off + Cardinality(E)
        /\ W # {} =>
             /\ finalRankings[1].rank = 1
             /\ players[RosterIndexOf(finalRankings[1])].status = "winner"
        /\ \A i \in 1..Len(finalRankings) : finalRankings[i].rank = 1 => (i = 1 /\ W # {})
        /\ { RosterIndexOf(finalRankings[off + k]) : k \in 1..Cardinality(E) } = E
        /\ \A k \in 1..Cardinality(E) : finalRankings[off + k].rank = k + 1
        /\ \A k \in 1..(Cardinality(E) - 1) :
             LET a == RosterIndexOf(finalRankings[off + k])
                 b == RosterIndexOf(finalRankings[off + k + 1])
             IN  \/ ElimKey(a) > ElimKey(b)
                 \/ ElimKey(a) = ElimKey(b) /\ a < b

\* nobody won, three players were eliminated, the last two at the same instant and
\* after the first: they hold ranks 2 and 3 in roster order
C15_Witness ==
  /\ phase = "finished"
  /\ Len(players) = 3
  /\ \A i \in 1..3 : players[i].status = "eliminated"
  /\ ElimKey(1) < ElimKey(2)
  /\ ElimKey(2) = ElimKey(3)
  /\ Len(finalRankings) = 3
  /\ finalRankings[1].rank = 2
  /\ finalRankings[1].playerId = players[2].id
  /\ finalRankings[2].playerId = players[3].id
  /\ finalRankings[3].playerId = players[1].id

\* the rank the final rankings give to the player at roster position i (1-based)
RankOf(i) ==
  LET at == CHOOSE k \in 1..Len(finalRankings) : finalRankings[k].playerId = players[i].id
  IN  finalRankings[at].rank

Ranked(i) == \E k \in 1..Len(finalRankings) : finalRankings[k].playerId = players[i].id

\* players i and v (1-based) are the initiator and the victim of one Double Elim
DoubleElimPair(i, v) ==
  /\ i # v
  /\ players[i].status = "eliminated"
  /\ players[v].status = "eliminated"
  /\ players[i].eliminationData.cause = "Double Elimination"
  /\ players[v].eliminationData.cause = "Double Elimination"
  /\ players[i].eliminationData.eliminatedBy = ""
  /\ players[v].eliminationData.eliminatedBy = players[i].name
  /\ players[v].eliminationData.timestamp = players[i].eliminationData.timestamp + 1

\* C16: at the end of a battle, the initiator of a Double Elim has a strictly
\* lower rank number than its victim when both are still eliminated.
C16_InitiatorOutranksVictim ==
  phase = "finished" =>
    \A i, v \in 1..Len(players) :
      (DoubleElimPair(i, v) /\ Ranked(i) /\ Ranked(v)) => RankOf(i) < RankOf(v)

\* the outcome delivered in this step was label, handled for an active current
\* player over the state h of the render that started the spin
Handled(t, label) ==
  /\ OutcomeStep
  /\ t \in spinTimers \ spinTimers'
  /\ t.segment = label
  /\ t.onResult.mode = "battle-royale"
  /\ t.onResult.currentPlayerIndex < Len(t.onResult.players)
  /\ t.onResult.players[t.onResult.currentPlayerIndex + 1].status = "active"

C17_Step ==
  \A t \in spinTimers :
    (Handled(t, "Double Elim") /\ ActiveCount(t.onResult.players) = 2) =>
      LET h == t.onResult
          initiator == h.currentPlayerIndex + 1
          victim == CHOOSE v \in 1..Len(h.players) :
                      v # initiator /\ h.players[v].status = "active"
          earlier == {i \in 1..Len(h.players) : h.players[i].status = "eliminated"}
      IN  /\ players'[initiator].status = "eliminated"
          /\ players'[victim].status = "eliminated"
          /\ phase' = "finished"
          /\ Winners(players') = {}
          /\ \A k \in 1..Len(finalRankings') : finalRankings'[k].rank # 1
          /\ Len(finalRankings') = 2 + Cardinality(earlier)
          /\ finalRankings'[1].rank = 2
          /\ finalRankings'[1].playerId = h.players[victim].id
          /\ finalRankings'[1].eliminatedBy = h.players[initiator].name
          /\ finalRankings'[2].rank = 3
          /\ finalRankings'[2].playerId = h.players[initiator].id
          /\ \A k \in 3..Len(finalRankings') :
               /\ finalRankings'[k].rank = k + 1
               /\ \E i \in earlier : h.players[i].id = finalRankings'[k].playerId

EliminatedNow == {i \in 1..Len(players) : players[i].status = "eliminated"}

\* C18: in a battle, no two players who are eliminated at the same time carry the same
\* elimination timestamp.
C18_DistinctEliminationTimestamps ==
  mode = "battle-royale" =>
    \A i, j \in EliminatedNow :
      i # j => players[i].eliminationData.timestamp # players[j].eliminationData.timestamp

\* the two players taken out by one Double Elim are both eliminated, one
\* millisecond apart
C18_Witness ==
  /\ mode = "battle-royale"
  /\ \E i, v \in EliminatedNow : DoubleElimPair(i, v)

\* player k of the new roster is player k of h's roster eliminated with this record
EliminatedAs(h, k, cause, by) ==
  /\ players'[k].status = "eliminated"
  /\ players'[k].eliminationData.cause = cause
  /\ players'[k].eliminationData.eliminatedBy = by
  /\ players'[k].eliminationData.round = round
  /\ round = h.round
  /\ players'[k].id = h.players[k].id
  /\ players'[k].name = h.players[k].name
  /\ players'[k].score = h.players[k].score
  /\ players'[k].revivedCount = h.players[k].revivedCount

\* end-of-match detection marks player k winner: k was active and is the only
\* player the outcome left active
MarkedWinner(h, k) ==
  /\ h.players[k].status = "active"
  /\ players'[k] = [h.players[k] EXCEPT !.status = "winner"]
  /\ \A j \in 1..Len(players') : j # k => players'[j].status # "active"

DoubleElimVictims(h) ==
  {v \in 1..Len(h.players) :
     v # h.currentPlayerIndex + 1 /\ h.players[v].status = "active"}

\* what a Double Elim does to the initiator and to victim v
DoubleElimRecords(h, v) ==
  LET initiator == h.currentPlayerIndex + 1
  IN  /\ EliminatedAs(h, initiator, "Double Elimination", "")
      /\ EliminatedAs(h, v, "Double Elimination", h.players[initiator].name)
      /\ players'[v].eliminationData.timestamp >
           players'[initiator].eliminationData.timestamp

C19_LiteralStep ==
  \A t \in spinTimers :
    (Handled(t, "Double Elim") /\ DoubleElimVictims(t.onResult) # {}) =>
      \E v \in DoubleElimVictims(t.onResult) :
        /\ DoubleElimRecords(t.onResult, v)
        /\ \A k \in 1..Len(players') :
             k \notin {t.onResult.currentPlayerIndex + 1, v} =>
               players'[k] = t.onResult.players[k]

\* C19 as stated: a Double Elim with another active player eliminates the current
\* player and one other active player and changes no third player.
C19_NoThirdPlayerChanges == [][C19_LiteralStep]_vars

C19_Step ==
  \A t \in spinTimers :
    (Handled(t, "Double Elim") /\ DoubleElimVictims(t.onResult) # {}) =>
      \E v \in DoubleElimVictims(t.onResult) :
        /\ DoubleElimRecords(t.onResult, v)
        /\ \A k \in 1..Len(players') :
             k \notin {t.onResult.currentPlayerIndex + 1, v} =>
               \/ players'[k] = t.onResult.players[k]
               \/ MarkedWinner(t.onResult, k)

\* C19 (amended): a Double Elim with another active player eliminates the current
\* player and one other active player, both with cause Double Elimination and the
\* current round, the victim with eliminatedBy the current player's name and a
\* strictly greater timestamp, the initiator with no eliminatedBy; no third player
\* changes, except that a third player left as the only active one is marked
\* winner in the same step.
C19_DoubleElimChangesTwo == [][C19_Step]_vars

\* a Double Elim in a four-player match took out two players and the match goes
\* on between the other two
C19_Witness ==
  /\ phase = "playing"
  /\ Len(players) = 4
  /\ ActiveCount(players) = 2
  /\ \E i, v \in EliminatedNow : DoubleElimPair(i, v)

CauseOf(label) == IF label = "Defeat" THEN "Defeat" ELSE "Sudden Death"

C20_LiteralStep ==
  \A t \in spinTimers : \A label \in {"Defeat", "Sudden Death"} :
    (Handled(t, label) /\ (label = "Sudden Death" => players' # t.onResult.players)) =>
      /\ EliminatedAs(t.onResult, t.onResult.currentPlayerIndex + 1, CauseOf(label), "")
      /\ \A k \in 1..Len(players') :
           k # t.onResult.currentPlayerIndex + 1 => players'[k] = t.onResult.players[k]

\* C20 as stated: Defeat, and Sudden Death when it is lost, eliminate the current
\* player with that cause and the current round and leave every other player's
\* status, record and revival count as they were.
C20_OnlyCurrentPlayerChanges == [][C20_LiteralStep]_vars

C20_Step ==
  \A t \in spinTimers : \A label \in {"Defeat", "Sudden Death"} :
    (Handled(t, label) /\ (label = "Sudden Death" => players' # t.onResult.players)) =>
      /\ EliminatedAs(t.onResult, t.onResult.currentPlayerIndex + 1, CauseOf(label), "")
      /\ \A k \in 1..Len(players') :
           k # t.onResult.currentPlayerIndex + 1 =>
             \/ players'[k] = t.onResult.players[k]
             \/ MarkedWinner(t.onResult, k)

\* C20 (amended): Defeat, and Sudden Death when it is lost, eliminate the current
\* player with that cause and the current round; every other player's status,
\* record and revival count are unchanged, except that a player left as the only
\* active one is marked winner in the same step.
C20_CurrentPlayerEliminated == [][C20_Step]_vars

\* a lost Sudden Death took one player out of a match that goes on
C20_Witness ==
  /\ phase = "playing"
  /\ ActiveCount(players) >= 2
  /\ \E i \in EliminatedNow :
       /\ players[i].eliminationData.cause = "Sudden Death"
       /\ players[i].eliminationData.round = round

C21_Step ==
  \A t \in spinTimers : \A label \in {"Victory", "Immunity", "Sudden Death"} :
    (/\ Handled(t, label)
     /\ label = "Sudden Death" =>
          players'[t.onResult.currentPlayerIndex + 1].status # "eliminated") =>
      /\ players' = players
      /\ players' = t.onResult.players
      /\ phase' = phase
      /\ finalRankings' = finalRankings
      /\ mode' = mode
      /\ targetPoints' = targetPoints
      /\ round' \in {round, round + 1}
      /\ currentPlayerIndex' =
           FirstActiveAfter(t.onResult.currentPlayerIndex, players)

\* C21: Victory, Immunity and a survived Sudden Death leave every player's
\* status, score, elimination record and revival count as they were; of the match
\* state they change only the turn, and possibly the round.
C21_NeutralOutcomesOnlyAdvance == [][C21_Step]_vars

\* the second player is up in round 1 and nothing has happened to anybody: the
\* first player's outcome only passed the turn
C21_Witness ==
  /\ phase = "playing"
  /\ mode = "battle-royale"
  /\ ~spinning
  /\ currentPlayerIndex = 1
  /\ round = 1
  /\ clock = 0
  /\ \A i \in 1..Len(players) :
       /\ players[i].status = "active"
       /\ players[i].eliminationData = NoElimination
       /\ players[i].revivedCount = 0

EliminatedIn(ps) == {i \in 1..Len(ps) : ps[i].status = "eliminated"}

C22_ExtraLifeStep ==
  \A t \in spinTimers :
    Handled(t, "Extra Life") =>
      LET h == t.onResult
      IN  /\ EliminatedIn(h.players) # {} =>
               \E r \in EliminatedIn(h.players) :
                 /\ players'[r].status = "active"
                 /\ players'[r].revivedCount = h.players[r].revivedCount + 1
                 /\ players'[r].id = h.players[r].id
                 /\ players'[r].name = h.players[r].name
                 /\ players'[r].score = h.players[r].score
                 /\ \A k \in 1..Len(players') : k # r => players'[k] = h.players[k]
          /\ EliminatedIn(h.players) = {} => players' = h.players
          /\ h.players = players
          /\ currentPlayerIndex' = FirstActiveAfter(h.currentPlayerIndex, players')

\* a revival count went up in this step
RevivalCounted ==
  \E i \in 1..Len(players) :
    /\ i <= Len(players')
    /\ players'[i].id = players[i].id
    /\ players'[i].revivedCount > players[i].revivedCount

C22_OnlyExtraLifeCounts ==
  RevivalCounted => \E t \in spinTimers : Handled(t, "Extra Life")

\* C22: Extra Life with an eliminated player makes exactly one eliminated player
\* active and raises that player's revival count by one, all other players
\* unchanged; with nobody eliminated the roster is unchanged; either way the turn
\* advances. No other step raises a revival count.
C22_ExtraLifeRevivesOne == [][C22_ExtraLifeStep /\ C22_OnlyExtraLifeCounts]_vars

\* a player who was eliminated is back in the match with one revival counted
C22_Witness ==
  /\ phase = "playing"
  /\ \E i \in 1..Len(players) :
       /\ players[i].status = "active"
       /\ players[i].revivedCount = 1
       /\ players[i].eliminationData # NoElimination

\* an outcome was handled for an active current player in battle royale
HandledAny(t) == \E label \in {BATTLE_SEGMENTS[k] : k \in 1..Len(BATTLE_SEGMENTS)} :
                   Handled(t, label)

C23_Step ==
  /\ \A t \in spinTimers :
       (HandledAny(t) /\ phase' = "playing") =>
         LET nextIdx == FirstActiveAfter(t.onResult.currentPlayerIndex, players')
         IN  /\ currentPlayerIndex' = nextIdx
             /\ nextIdx <= t.onResult.currentPlayerIndex => round' = round + 1
             /\ nextIdx > t.onResult.currentPlayerIndex => round' = round
  /\ (mode = "battle-royale" /\ phase = "playing" /\ phase' = "playing") => round' >= round

\* C23: in battle royale, an outcome that does not end the match raises round by
\* exactly one when the next active index is at or before the index of the player
\* who spun, and leaves it otherwise; round never goes down while the phase stays
\* playing, and is never below 1.
C23_RoundCounting == [](round >= 1) /\ [][C23_Step]_vars

\* the turn wrapped around past an eliminated first player: round 2 began at the
\* second seat
C23_Witness ==
  /\ phase = "playing"
  /\ mode = "battle-royale"
  /\ round = 2
  /\ players[1].status = "eliminated"
  /\ currentPlayerIndex = 1

\* the current player of the state h is missing or not active
NoActiveCurrentPlayer(h) ==
  \/ h.currentPlayerIndex >= Len(h.players)
  \/ h.players[h.currentPlayerIndex + 1].status # "active"

C24_Step ==
  \A t \in spinTimers :
    (OutcomeStep /\ t \in spinTimers \ spinTimers' /\ NoActiveCurrentPlayer(t.onResult)) =>
      /\ players' = players
      /\ phase' = phase
      /\ round' = round
      /\ currentPlayerIndex' = currentPlayerIndex

GameStarted == phase = "setup" /\ phase' = "playing"

C25_Step ==
  GameStarted =>
    /\ \A i \in 1..Len(players') :
         /\ players'[i].status = "active"
         /\ players'[i].score = 0
         /\ players'[i].eliminationData = NoElimination
         /\ players'[i].revivedCount = 0
    /\ round' = 1
    /\ currentPlayerIndex' = 0

\* C25: after every accepted startGame, whatever happened in earlier matches,
\* every player is active with score 0, no elimination record and revival count
\* 0, round is 1 and currentPlayerIndex is 0.
C25_StartGameResetsPlayers == [][C25_Step]_vars

\* the roster is too small for the mode: startGame cannot be accepted
TooFewPlayers ==
  \/ mode = "normal" /\ Len(players) = 0
  \/ mode = "battle-royale" /\ Len(players) < 2

C26_Step ==
  (phase = "setup" /\ TooFewPlayers) =>
    /\ phase' = "setup"
    /\ round' = round
    /\ currentPlayerIndex' = currentPlayerIndex
    /\ players' = players \/ Len(players') # Len(players)

\* C26: with too few players (none in normal mode, fewer than two in battle
\* royale) no step leaves the setup phase: startGame is rejected, and round,
\* currentPlayerIndex and the players are left as they are (the roster changes
\* only by players being added or removed). A match under way therefore always
\* has enough players.
C26_StartRejectedWithTooFew ==
  /\ [][C26_Step]_vars
  /\ [](phase = "playing" =>
          Len(players) >= (IF mode = "battle-royale" THEN 2 ELSE 1))

\* battle royale with a single player on the setup screen
C26_Witness ==
  /\ phase = "setup"
  /\ mode = "battle-royale"
  /\ Len(players) = 1
  /\ round = 1
  /\ currentPlayerIndex = 0

RosterIds(ps) == [i \in 1..Len(ps) |-> ps[i].id]

C27_Step ==
  RosterIds(players') # RosterIds(players) =>
    \/ phase = "setup"
    \/ phase = "finished" /\ phase' = "setup" /\ players' = << >>

C28_RosterAtMostLimit == Len(players) <= MAX_BATTLE_PLAYERS

\* Reset Game was clicked in this step (New Game, the other way to setup, empties
\* the roster, and a match always has a player)
GameReset == phase # "setup" /\ phase' = "setup" /\ players' # << >>

C29_ResetStep ==
  GameReset =>
    /\ RosterIds(players') = RosterIds(players)
    /\ [i \in 1..Len(players') |-> players'[i].name] =
         [i \in 1..Len(players) |-> players[i].name]
    /\ \A i \in 1..Len(players') : players'[i].status = "active" /\ players'[i].score = 0
    /\ round' = 1
    /\ currentPlayerIndex' = 0
    /\ ResetOf(ResetScope)' = ResetScope'

\* C29: resetGame keeps the sequence of player ids and names and leaves phase
\* setup, every player active with score 0, round 1 and currentPlayerIndex 0; a
\* second resetGame right after the first changes nothing, from any state.
C29_ResetIdempotent ==
  /\ [](ResetOf(ResetOf(ResetScope)) = ResetOf(ResetScope))
  /\ [][C29_ResetStep]_vars

\* a battle that ended with one player eliminated was reset: back on the setup
\* screen with both players active again
C29_Witness ==
  /\ phase = "setup"
  /\ Len(players) = 2
  /\ \A i \in 1..2 : players[i].status = "active" /\ players[i].score = 0
  /\ \E i \in 1..2 : players[i].eliminationData.cause = "Defeat"

C30_Step ==
  phase = "finished" =>
    \/ /\ phase' = "finished"
       /\ players' = players
       /\ round' = round
       /\ finalRankings' = finalRankings
       /\ currentPlayerIndex' = currentPlayerIndex
       /\ spinTimers' \subseteq spinTimers
       /\ ~spinning'
    \/ /\ phase' = "playing"
       /\ finalRankings' = << >>
       /\ round' = 1
    \/ phase' = "setup"

\* C30: once the phase is finished it stays finished, with players, round and
\* final rankings unchanged, until Play Again (to playing), New Game or Reset (to
\* setup); in between no spin starts and no outcome is applied.
C30_FinishedIsStable == [][C30_Step]_vars

\* the results screen is up while an auto-spin timer of the match is still pending
C30_Witness ==
  /\ phase = "finished"
  /\ Committed
  /\ wheelProps.disabled
  /\ autoSpinTimers # {}

\* the outcome delivered in this step was label, handled in normal mode over the
\* state h of the render that started the spin
HandledNormal(t, label) ==
  /\ OutcomeStep
  /\ t \in spinTimers \ spinTimers'
  /\ t.segment = label
  /\ t.onResult.mode = "normal"
  /\ t.onResult.currentPlayerIndex < Len(t.onResult.players)

\* the points the rules give for an outcome to a player with this score
RuleDelta(label, score) ==
  IF label = "Lucky! +100" THEN 100
  ELSE IF label = "Unlucky -50" THEN 0 - 50
  ELSE IF label = "Double Pts" THEN score
  ELSE IF label = "Bonus Round" THEN 75
  ELSE IF label = "+50 Points" THEN 50
  ELSE IF label = "-25 Points" THEN 0 - 25
  ELSE 0

C31_Step ==
  \A t \in spinTimers : \A label \in OutcomeLabels("normal") :
    HandledNormal(t, label) =>
      LET h == t.onResult
          cur == h.currentPlayerIndex + 1
      IN  /\ h.players = players
          /\ players'[cur].score = players[cur].score + RuleDelta(label, players[cur].score)
          /\ players'[cur].id = players[cur].id
          /\ players'[cur].name = players[cur].name
          /\ \A k \in 1..Len(players') : k # cur => players'[k] = players[k]

\* C31: in normal mode an outcome changes the score of the current player only, by
\* +100, -50, 0 (Spin Again), + the current score (Double Pts, negative scores
\* included, no floor or cap), 0 (Lose Turn), +75, +50 or -25; every other player
\* is unchanged.
C31_NormalScoreRule == [][C31_Step]_vars

\* a normal match in which one player is in debt by more than one -25 and the
\* other has points
C31_Witness ==
  /\ mode = "normal"
  /\ phase = "playing"
  /\ Len(players) = 2
  /\ \E i, j \in 1..2 : players[i].score = 0 - 50 /\ players[j].score > 0

C32_Step ==
  /\ \A t \in spinTimers : \A label \in OutcomeLabels("normal") :
       (HandledNormal(t, label) /\ phase' = "playing") =>
         IF label = "Spin Again"
           THEN currentPlayerIndex' = currentPlayerIndex
           ELSE currentPlayerIndex' = (currentPlayerIndex + 1) % Len(players)
  /\ (mode = "normal" /\ phase = "playing" /\ phase' = "playing" /\ ~OutcomeStep) =>
       currentPlayerIndex' = currentPlayerIndex

\* C32: in normal mode, after an outcome that does not win the match, Spin Again
\* keeps currentPlayerIndex and every other outcome, Lose Turn included, moves it
\* to the next roster index, from the last player back to 0; nothing else moves
\* the turn during a match, so the players take their turns in roster order.
C32_NormalTurnOrder == [][C32_Step]_vars

\* the turn has passed from the first player to the second without any points
\* being scored: a Lose Turn
C32_Witness ==
  /\ mode = "normal"
  /\ phase = "playing"
  /\ Len(players) = 2
  /\ currentPlayerIndex = 1
  /\ ~spinning
  /\ \A i \in 1..2 : players[i].score = 0

IdsOf(ps) == {ps[i].id : i \in 1..Len(ps)}

C33_Distinct ==
  /\ \A i, j \in 1..Len(players) : i # j => players[i].id # players[j].id
  /\ \A i \in 1..Len(players) : players[i].id >= 1 /\ players[i].id <= playerIdCounter

\* every id that enters the roster is above all ids handed out so far
C33_Step ==
  /\ playerIdCounter' >= playerIdCounter
  /\ \A id \in IdsOf(players') \ IdsOf(players) : id > playerIdCounter

\* C33: the ids in the roster are pairwise distinct at all times, and a player
\* created later never gets an id that was handed out before, whether or not its
\* first holder is still in the roster.
C33_IdsUniqueNeverReused == []C33_Distinct /\ [][C33_Step]_vars

\* the only player in the roster holds id 2: the holder of id 1 is gone
C33_Witness ==
  /\ phase = "setup"
  /\ Len(players) = 1
  /\ players[1].id = 2

CurrentPlayerActive ==
  /\ currentPlayerIndex < Len(players)
  /\ players[currentPlayerIndex + 1].status = "active"

\* C34: whenever the phase is playing, in either mode, currentPlayerIndex is an
\* index of the roster and the player at that index is active; and every spin in
\* flight was started on an active current player, so the handlers' guard for
\* an inactive current player is not taken when its outcome is delivered.
C34_CurrentPlayerActive ==
  /\ phase = "playing" => CurrentPlayerActive
  /\ \A t \in spinTimers : ~NoActiveCurrentPlayer(t.onResult)

\* a spin is allowed on a player whose predecessor in the roster was skipped
C34_Witness ==
  /\ phase = "playing"
  /\ canSpin(rend)
  /\ Committed
  /\ currentPlayerIndex < Len(players)
  /\ players[((currentPlayerIndex + Len(players) - 1) % Len(players)) + 1].status = "eliminated"
  /\ \E i \in 1..Len(players) : players[i].revivedCount > 0

ActiveIn(ps) == {i \in 1..Len(ps) : ps[i].status = "active"}

\* C35: in battle royale, whenever the phase is playing at least two players are
\* active and nobody is marked winner; and every spin in flight was started
\* with at least two active players, so a Double Elim always finds a victim.
C35_TwoActiveWhilePlaying ==
  /\ (mode = "battle-royale" /\ phase = "playing") =>
       /\ Cardinality(ActiveIn(players)) >= 2
       /\ \A i \in 1..Len(players) : players[i].status # "winner"
  /\ \A t \in spinTimers :
       t.onResult.mode = "battle-royale" =>
         Cardinality(ActiveIn(t.onResult.players)) >= 2

\* a Double Elim is in flight in a four-player match that is down to two
C35_Witness ==
  /\ mode = "battle-royale"
  /\ phase = "playing"
  /\ Len(players) = 4
  /\ Cardinality(ActiveIn(players)) = 2
  /\ \E t \in spinTimers : t.segment = "Double Elim"

\* C36: the busy flag is true exactly when a deferred spin outcome is pending.
C36_SpinningIffPending == spinning <=> spinTimers # {}

\* an outcome has been delivered and the next spin is allowed
C36_Witness ==
  /\ phase = "playing"
  /\ ~spinning
  /\ spinTimers = {}
  /\ Committed
  /\ canSpin(rend)
  /\ \E i \in 1..Len(players) : players[i].score # 0

\* a step in which a fired auto-spin timer started a spin
AutoSpinStarted == AutoSpinStep /\ spinTimers' \ spinTimers # {}

\* a step in which an outcome handler scheduled an auto-spin timer
AutoSpinScheduled == OutcomeStep /\ autoSpinTimers' \ autoSpinTimers # {}

C37_Step ==
  /\ AutoSpinStarted => autoSpinEnabled
  /\ AutoSpinScheduled => autoSpinEnabled

\* C37: while auto-spin is switched off no automatically triggered spin starts,
\* and an outcome handler schedules no auto-spin timer, also when the toggle
\* was changed while the spin was in flight.
C37_NoAutoSpinWhileOff == [][C37_Step]_vars

EntriesOf(i) == {k \in 1..Len(finalRankings) : finalRankings[k].playerId = players[i].id}

\* C38: when a battle royale match is finished, every roster player has exactly
\* one entry in the final rankings and every entry belongs to a roster player,
\* the ranks are pairwise distinct, the entry of an eliminated player carries the
\* cause and round of the elimination record the player holds, that round lies
\* between 1 and the round at the end, and the winner's entry carries the round
\* at the end as rounds survived.
C38_FinalRankingsComplete ==
  (mode = "battle-royale" /\ phase = "finished") =>
    /\ Len(finalRankings) = Len(players)
    /\ \A i \in 1..Len(players) : Cardinality(EntriesOf(i)) = 1
    /\ \A k, l \in 1..Len(finalRankings) :
         k # l => finalRankings[k].rank # finalRankings[l].rank
    /\ \A i \in 1..Len(players) : \A k \in EntriesOf(i) :
         /\ players[i].status \in {"eliminated", "winner"}
         /\ players[i].status = "eliminated" =>
              /\ finalRankings[k].eliminationCause = players[i].eliminationData.cause
              /\ finalRankings[k].eliminationCause # "none"
              /\ finalRankings[k].finalRound = players[i].eliminationData.round
              /\ finalRankings[k].finalRound >= 1
              /\ finalRankings[k].finalRound <= round
         /\ players[i].status = "winner" =>
              finalRankings[k].survivedRounds = round

\* a four-player match won in the second round by a player who had been revived,
\* with a loser who went out in the first round
C38_Witness ==
  /\ mode = "battle-royale"
  /\ phase = "finished"
  /\ Len(players) = 4
  /\ round = 2
  /\ \E i \in 1..Len(players) :
       players[i].status = "winner" /\ players[i].revivedCount > 0
  /\ \E k \in 1..Len(finalRankings) :
       finalRankings[k].rank > 1 /\ finalRankings[k].finalRound = 1

\* C39: when a normal match is finished exactly one player is marked winner and
\* that player's score is above every other player's score, so the player with
\* the highest score, which the results screen shows, is the marked winner.
C39_NormalWinnerHasTopScore ==
  (mode = "normal" /\ phase = "finished") =>
    /\ Cardinality(Winners(players)) = 1
    /\ \A w \in 1..Len(players) : players[w].status = "winner" =>
         \A i \in 1..Len(players) : i # w => players[w].score > players[i].score

\* the second player of two won, the first having scored as well
C39_Witness ==
  /\ mode = "normal"
  /\ phase = "finished"
  /\ Len(players) = 2
  /\ players[2].status = "winner"
  /\ players[1].score > 0
====
